---------------------------- MODULE Spec2Model ----------------------------
(***************************************************************************)
(* Model of the Shopify POS backend (src/main.py, src/webhooks.py,        *)
(* src/shopify.py, src/models.py, src/database.py): the local store, the   *)
(* bulk syncs, the webhook handlers and the order endpoints.               *)
(*                                                                         *)
(* Every request handler is one action (the handlers are run to completion *)
(* on their own session).  A handler is written as an operator from the    *)
(* committed tables and the request to the tables it commits, its response *)
(* and the remote calls it issued.                                         *)
(***************************************************************************)
EXTENDS Integers, Sequences, FiniteSets, TLC

(***************************************************************************)
(* Python floats.  Prices, totals and discounts are Python floats (IEEE    *)
(* binary64): Column(Float) in models.py, float(...) in the handlers.      *)
(* A float is sgn * m * 2^e with a 53-bit mantissa m kept as a little-     *)
(* endian sequence of 15-bit limbs (the checker's integers are 32 bits     *)
(* wide); operations round to nearest, ties to even, as the hardware does. *)
(***************************************************************************)
MantBits == 53
LimbBits == 15
Limb == 2^LimbBits

RECURSIVE BNorm(_)
BNorm(a) ==
    IF a = <<>> THEN <<>>
    ELSE IF a[Len(a)] = 0 THEN BNorm(SubSeq(a, 1, Len(a) - 1))
    ELSE a

BFromInt(n) ==
    BNorm(<<n % Limb, (n \div Limb) % Limb, n \div (Limb * Limb)>>)

RECURSIVE BAddC(_, _, _)
BAddC(a, b, c) ==
    IF a = <<>> /\ b = <<>> THEN (IF c = 0 THEN <<>> ELSE <<c>>)
    ELSE LET x == IF a = <<>> THEN 0 ELSE Head(a)
             y == IF b = <<>> THEN 0 ELSE Head(b)
             s == x + y + c
         IN  <<s % Limb>> \o BAddC(IF a = <<>> THEN <<>> ELSE Tail(a),
                                   IF b = <<>> THEN <<>> ELSE Tail(b),
                                   s \div Limb)

BAdd(a, b) == BAddC(a, b, 0)

RECURSIVE BSubC(_, _, _)
BSubC(a, b, c) ==
    IF a = <<>> THEN <<>>
    ELSE LET y == IF b = <<>> THEN 0 ELSE Head(b)
             d == Head(a) - y - c
         IN  <<d % Limb>> \o BSubC(Tail(a),
                                   IF b = <<>> THEN <<>> ELSE Tail(b),
                                   IF d < 0 THEN 1 ELSE 0)

\* a - b for a >= b
BSub(a, b) == BNorm(BSubC(a, b, 0))

RECURSIVE BCmpAt(_, _, _)
BCmpAt(a, b, i) ==
    IF i = 0 THEN 0
    ELSE IF a[i] > b[i] THEN 1
    ELSE IF a[i] < b[i] THEN -1
    ELSE BCmpAt(a, b, i - 1)

\* -1, 0, 1 as a < b, a = b, a > b (both normalised)
BCmp(a, b) ==
    IF Len(a) > Len(b) THEN 1
    ELSE IF Len(a) < Len(b) THEN -1
    ELSE BCmpAt(a, b, Len(a))

RECURSIVE BMulC(_, _, _)
BMulC(a, k, c) ==
    IF a = <<>> THEN (IF c = 0 THEN <<>> ELSE <<c % Limb>> \o BMulC(<<>>, k, c \div Limb))
    ELSE LET p == Head(a) * k + c
         IN  <<p % Limb>> \o BMulC(Tail(a), k, p \div Limb)

\* a * k for 0 <= k < Limb
BMulSmall(a, k) == BNorm(BMulC(a, k, 0))

RECURSIVE BDivRec(_, _, _, _)
BDivRec(a, k, i, r) ==
    IF i = 0 THEN [q |-> <<>>, r |-> r]
    ELSE LET cur  == r * Limb + a[i]
             rest == BDivRec(a, k, i - 1, cur % k)
         IN  [q |-> Append(rest.q, cur \div k), r |-> rest.r]

\* quotient and remainder of a by k, 0 < k < Limb
BDivSmall(a, k) ==
    LET d == BDivRec(a, k, Len(a), 0) IN [q |-> BNorm(d.q), r |-> d.r]

Zeros(n) == [i \in 1..n |-> 0]

BShl(a, n) ==
    IF a = <<>> THEN <<>>
    ELSE Zeros(n \div LimbBits) \o BMulSmall(a, 2^(n % LimbBits))

BShr(a, n) ==
    LET k == n \div LimbBits IN
    IF k >= Len(a) THEN <<>>
    ELSE BDivSmall(SubSeq(a, k + 1, Len(a)), 2^(n % LimbBits)).q

\* whether any of the low n bits of a is set
BLowNonZero(a, n) ==
    LET k == n \div LimbBits IN
    \/ \E i \in 1..Len(a) : i <= k /\ a[i] # 0
    \/ k < Len(a) /\ a[k + 1] % (2^(n % LimbBits)) # 0

BOdd(a) == a # <<>> /\ a[1] % 2 = 1

RECURSIVE IntBitLen(_)
IntBitLen(n) == IF n = 0 THEN 0 ELSE 1 + IntBitLen(n \div 2)

BBitLen(a) ==
    IF a = <<>> THEN 0 ELSE (Len(a) - 1) * LimbBits + IntBitLen(a[Len(a)])

FZero == [sgn |-> 0, m |-> <<>>, e |-> 0]

\* the rounded mantissa q1 with d bits cut, which may have grown a bit
FRoundCarry(sgn, q1, e, d) ==
    IF BBitLen(q1) > MantBits
    THEN [sgn |-> sgn, m |-> BShr(q1, 1), e |-> e + d + 1]
    ELSE [sgn |-> sgn, m |-> q1, e |-> e + d]

\* M cut by d bits to q: up when the bits cut are more than half of the
\* last bit kept, or half of it and q is odd
FRoundCut(sgn, M, e, sticky, d, q) ==
    IF BOdd(BShr(M, d - 1)) /\ (sticky \/ BLowNonZero(M, d - 1) \/ BOdd(q))
    THEN FRoundCarry(sgn, BAdd(q, <<1>>), e, d)
    ELSE FRoundCarry(sgn, q, e, d)

FRoundBits(sgn, M, e, sticky, n) ==
    IF n = 0 \/ sgn = 0 THEN FZero
    ELSE IF n <= MantBits
         THEN [sgn |-> sgn, m |-> BShl(M, MantBits - n), e |-> e - (MantBits - n)]
    ELSE FRoundCut(sgn, M, e, sticky, n - MantBits, BShr(M, n - MantBits))

\* sgn * M * 2^e (plus a nonzero tail below the last bit of M when sticky)
\* rounded to MantBits bits, nearest, ties to even
FRound(sgn, M, e, sticky) == FRoundBits(sgn, M, e, sticky, BBitLen(M))

Sign(n) == IF n > 0 THEN 1 ELSE IF n < 0 THEN -1 ELSE 0
Abs(n) == IF n < 0 THEN -n ELSE n

ParseShift == 4 * LimbBits + 4

\* float("c/100"): the float nearest to the decimal with c hundredths,
\* which is how a price string or a JSON number of the request is read
FParseQuotient(sgn, d) == FRound(sgn, d.q, -ParseShift, d.r # 0)

FParseCents(c) ==
    FParseQuotient(Sign(c), BDivSmall(BShl(BFromInt(Abs(c)), ParseShift), 100))

\* float(n) for a small integer n
FFromInt(n) == FRound(Sign(n), BFromInt(Abs(n)), 0, FALSE)

FNeg(x) == [x EXCEPT !.sgn = -x.sgn]

\* sx * mx + sy * my, exactly, times 2^e0
FSum(sx, mx, sy, my, e0) ==
    IF sx = sy THEN FRound(sx, BAdd(mx, my), e0, FALSE)
    ELSE IF BCmp(mx, my) = 0 THEN FZero
    ELSE IF BCmp(mx, my) > 0 THEN FRound(sx, BSub(mx, my), e0, FALSE)
    ELSE FRound(sy, BSub(my, mx), e0, FALSE)

FAlign(x, y, e0) == FSum(x.sgn, BShl(x.m, x.e - e0), y.sgn, BShl(y.m, y.e - e0), e0)

\* x + y
FAdd(x, y) ==
    IF x.sgn = 0 THEN y
    ELSE IF y.sgn = 0 THEN x
    ELSE FAlign(x, y, IF x.e < y.e THEN x.e ELSE y.e)

\* x - y
FSub(x, y) == FAdd(x, FNeg(y))

\* x * n for a float x and an int n (Python converts n to float first)
FMulInt(x, n) ==
    IF n = 0 THEN FZero
    ELSE FRound(x.sgn * Sign(n), BMulSmall(x.m, Abs(n)), x.e, FALSE)

\* x < y, x <= y, x > y, x >= y
FLt(x, y) == FSub(x, y).sgn < 0
FLe(x, y) == FSub(x, y).sgn <= 0
FGt(x, y) == FSub(x, y).sgn > 0
FGe(x, y) == FSub(x, y).sgn >= 0


(***************************************************************************)
(* Python values.  None of a text field is Null, None of an external id is *)
(* NoId (external ids are positive), and an integer that may be None is a  *)
(* sequence of length at most one.                                         *)
(***************************************************************************)
Null == "null"
\* "not text" of Python: None and the empty string
Falsy(text) == text = Null \/ text = ""
NoId == 0
PyNone == <<>>
PyInt(n) == <<n>>

\* a remote price: JSON null, a decimal string with c hundredths, or a
\* string that float() does not parse
PriceNull == [kind |-> "null", cents |-> 0]
PriceDec(c) == [kind |-> "dec", cents |-> c]
PriceBad == [kind |-> "bad", cents |-> 0]

\* str(f) of a float f, the spelling in which the point of sale sends a
\* price (main.py 1058, 1074)
PriceRepr(f) == [kind |-> "repr", cents |-> 0, value |-> f]

\* float(variant.get("price") or 0) for a parsable price; the repr of a
\* float reads back as that float
PriceFloat(p) ==
    IF p.kind = "dec" THEN FParseCents(p.cents)
    ELSE IF p.kind = "repr" THEN p.value
    ELSE FZero

\* int(variant.get("inventory_quantity") or 0)
InventoryInt(q) == IF q = PyNone THEN PyInt(0) ELSE q

\* product["images"][0].get("src") when the product has images
FirstImage(p) == IF Len(p.images) > 0 THEN p.images[1].src ELSE Null

(***************************************************************************)
(* The local store: the tables of models.py, each a sequence of rows in    *)
(* storage order.  A session (database.py: autoflush=False) queries the    *)
(* committed rows; objects it added are not seen by its later queries and  *)
(* are inserted, in the order added, when it commits.                      *)
(***************************************************************************)
VARIABLES products, customers, orders, webhook_events, remote, last, sessions

vars == <<products, customers, orders, webhook_events, remote, last, sessions>>

RECURSIVE MaxId(_)
MaxId(tbl) ==
    IF tbl = <<>> THEN 0
    ELSE LET m == MaxId(Tail(tbl)) IN IF Head(tbl).id > m THEN Head(tbl).id ELSE m

\* flush of the pending objects: each gets the next primary key
RECURSIVE Flush(_, _)
Flush(tbl, pending) ==
    IF pending = <<>> THEN tbl
    ELSE Flush(Append(tbl, [Head(pending) EXCEPT !.id = MaxId(tbl) + 1]), Tail(pending))

SetMin(S) == CHOOSE x \in S : \A y \in S : x <= y

\* position of the first row satisfying Test, 0 when there is none:
\* db.query(...).filter(...).first()
First(tbl, Test(_)) ==
    LET S == {i \in 1..Len(tbl) : Test(tbl[i])}
    IN  IF S = {} THEN 0 ELSE SetMin(S)

\* db.query(...).filter(...).all(): the matching rows in storage order
All(tbl, Test(_)) == SelectSeq(tbl, Test)

Tables == [products |-> products, customers |-> customers, orders |-> orders]

(***************************************************************************)
(* sync_products (main.py 142-235)                                         *)
(***************************************************************************)
SyncAcc(tbl) ==
    [added |-> 0, updated |-> 0, skipped |-> 0, seen |-> {},
     work |-> tbl, pending |-> <<>>, err |-> FALSE]

NeverProcessed(acc, v) == FALSE

\* variant_id in processed_variant_ids (main.py 156, 177-181)
Processed(acc, v) == v.id \in acc.seen

NoExisting(tbl, v) == 0

ExistingByBarcode(tbl, v) == First(tbl, LAMBDA r : r.barcode = v.barcode)

\* the row a sync updates: the first one of the variant id (main.py 185-187)
ExistingProduct(tbl, v) == First(tbl, LAMBDA r : r.shopify_id = v.id)

\* one pass of the inner loop (main.py 168-214) for variant v of product p
SyncVariant(tbl, p, v, acc) ==
    IF acc.err THEN acc
    ELSE IF Falsy(v.barcode) \/ v.id = NoId
         THEN [acc EXCEPT !.skipped = @ + 1]
    ELSE IF Processed(acc, v) THEN acc
    ELSE LET i == ExistingProduct(tbl, v)
             seen1 == acc.seen \cup {v.id}
         IN  IF v.price.kind = "bad"
             THEN [acc EXCEPT !.seen = seen1, !.err = TRUE]
             ELSE IF i # 0
             THEN [acc EXCEPT
                     !.seen = seen1,
                     !.work[i] = [@ EXCEPT
                         !.title = p.title,
                         !.shopify_product_id = p.id,
                         !.sku = v.sku,
                         !.barcode = v.barcode,
                         !.price = PriceFloat(v.price),
                         !.inventory_quantity = InventoryInt(v.inventory_quantity),
                         !.variant_title = v.title,
                         !.image_url = FirstImage(p)],
                     !.updated = @ + 1]
             ELSE [acc EXCEPT
                     !.seen = seen1,
                     !.pending = Append(@,
                        [id |-> 0,
                         shopify_id |-> v.id,
                         shopify_product_id |-> p.id,
                         title |-> p.title,
                         sku |-> v.sku,
                         barcode |-> v.barcode,
                         price |-> PriceFloat(v.price),
                         inventory_quantity |-> InventoryInt(v.inventory_quantity),
                         variant_title |-> v.title,
                         image_url |-> FirstImage(p)]),
                     !.added = @ + 1]

RECURSIVE SyncVariants(_, _, _, _)
SyncVariants(tbl, p, vs, acc) ==
    IF vs = <<>> THEN acc
    ELSE SyncVariants(tbl, p, Tail(vs), SyncVariant(tbl, p, Head(vs), acc))

RECURSIVE SyncProductsLoop(_, _, _)
SyncProductsLoop(tbl, ps, acc) ==
    IF ps = <<>> THEN acc
    ELSE SyncProductsLoop(tbl, Tail(ps), SyncVariants(tbl, Head(ps), Head(ps).variants, acc))

\* a sync that commits what it did before the exception
SyncProductsNoRollback(tbl, fetched) ==
    LET acc == SyncProductsLoop(tbl, fetched, SyncAcc(tbl))
    IN  [products |-> Flush(acc.work, acc.pending),
         resp |-> [status |-> IF acc.err THEN "error" ELSE "ok",
                   code |-> IF acc.err THEN 500 ELSE 200, added |-> acc.added,
                   updated |-> acc.updated, skipped_no_barcode |-> acc.skipped,
                   total_products |-> Len(fetched)]]

\* db.commit() raises IntegrityError on a product without title
\* (models.py 18: nullable=False)
ProductsViolate(rows) == \E i \in 1..Len(rows) : rows[i].title = Null

\* a sync that also drops the rows of variants the catalog no longer lists
SyncProductsPruning(tbl, fetched) ==
    LET acc == SyncProductsLoop(tbl, fetched, SyncAcc(tbl))
        kept == SelectSeq(Flush(acc.work, acc.pending),
                    LAMBDA r : \E i \in 1..Len(fetched) :
                                  \E j \in 1..Len(fetched[i].variants) :
                                     fetched[i].variants[j].id = r.shopify_id)
    IN  IF acc.err \/ ProductsViolate(Flush(acc.work, acc.pending))
        THEN [products |-> tbl,
              resp |-> [status |-> "error", code |-> 500, added |-> 0, updated |-> 0,
                        skipped_no_barcode |-> 0, total_products |-> 0]]
        ELSE [products |-> kept,
              resp |-> [status |-> "ok", code |-> 200, added |-> acc.added,
                        updated |-> acc.updated,
                        skipped_no_barcode |-> acc.skipped,
                        total_products |-> Len(fetched)]]

\* the handler: the committed product table and the response
sync_products(tbl, fetched) ==
    LET acc == SyncProductsLoop(tbl, fetched, SyncAcc(tbl))
    IN  IF acc.err \/ ProductsViolate(Flush(acc.work, acc.pending))
        THEN [products |-> tbl,
              resp |-> [status |-> "error", code |-> 500, added |-> 0, updated |-> 0,
                        skipped_no_barcode |-> 0, total_products |-> 0]]
        ELSE [products |-> Flush(acc.work, acc.pending),
              resp |-> [status |-> "ok", code |-> 200, added |-> acc.added,
                        updated |-> acc.updated,
                        skipped_no_barcode |-> acc.skipped,
                        total_products |-> Len(fetched)]]

(***************************************************************************)
(* sync_customers (main.py 325-416)                                        *)
(***************************************************************************)
\* the address of a remote customer (main.py 353-366 and its copies): the
\* first entry of its address list only; the text is its non-empty lines
\* joined by " ", None when both are empty
AddressLines(a) ==
    IF Falsy(a.address1) /\ Falsy(a.address2) THEN Null
    ELSE IF Falsy(a.address2) THEN a.address1
    ELSE IF Falsy(a.address1) THEN a.address2
    ELSE a.address1 \o " " \o a.address2

NoAddress == [address |-> Null, city |-> Null, country |-> Null]

ExtractAddress(c) ==
    IF Len(c.addresses) > 0
    THEN [address |-> AddressLines(c.addresses[1]),
          city    |-> c.addresses[1].city,
          country |-> c.addresses[1].country]
    ELSE NoAddress

\* addr.get(...) raises when the first entry of the list is not an object
AddressRaises(c) == Len(c.addresses) > 0 /\ c.addresses[1].kind # "obj"

CustomerRow(c) ==
    [id |-> 0,
     shopify_id |-> c.id,
     first_name |-> c.first_name,
     last_name  |-> c.last_name,
     email      |-> c.email,
     phone      |-> c.phone,
     address    |-> ExtractAddress(c).address,
     city       |-> ExtractAddress(c).city,
     country    |-> ExtractAddress(c).country]

\* one pass of the loop (main.py 339-396)
SyncCustomer(tbl, c, acc) ==
    IF acc.err THEN acc
    ELSE IF c.id = NoId THEN acc
    ELSE IF c.id \in acc.seen THEN acc
    ELSE LET i == First(tbl, LAMBDA r : r.shopify_id = c.id)
             seen1 == acc.seen \cup {c.id}
         IN  IF AddressRaises(c)
             THEN [acc EXCEPT !.seen = seen1, !.err = TRUE]
             ELSE IF i # 0
             THEN [acc EXCEPT
                     !.seen = seen1,
                     !.work[i] = [CustomerRow(c) EXCEPT !.id = tbl[i].id],
                     !.updated = @ + 1]
             ELSE [acc EXCEPT
                     !.seen = seen1,
                     !.pending = Append(@, CustomerRow(c)),
                     !.added = @ + 1]

RECURSIVE SyncCustomersLoop(_, _, _)
SyncCustomersLoop(tbl, cs, acc) ==
    IF cs = <<>> THEN acc
    ELSE SyncCustomersLoop(tbl, Tail(cs), SyncCustomer(tbl, Head(cs), acc))

sync_customers(tbl, fetched) ==
    LET acc == SyncCustomersLoop(tbl, fetched, SyncAcc(tbl))
    IN  IF acc.err
        THEN [customers |-> tbl,
              resp |-> [status |-> "error", code |-> 500, added |-> 0, updated |-> 0,
                        total_customers |-> 0]]
        ELSE [customers |-> Flush(acc.work, acc.pending),
              resp |-> [status |-> "ok", code |-> 200, added |-> acc.added,
                        updated |-> acc.updated,
                        total_customers |-> Len(fetched)]]

(***************************************************************************)
(* get_product_by_barcode (main.py 238-256)                                *)
(***************************************************************************)
get_product_by_barcode(tbl, barcode) ==
    LET found == All(tbl, LAMBDA r : r.barcode = barcode)
    IN  IF found = <<>>
        THEN [status |-> "error", code |-> 404, count |-> 0, products |-> <<>>]
        ELSE [status |-> "success", code |-> 200, count |-> Len(found),
              products |-> found]

(***************************************************************************)
(* The webhook handlers (webhooks.py).  A handler works on the session of  *)
(* the request: the rows as the session holds them (work), the objects it  *)
(* added (pending) and whether it raised.  Lookups filter the committed    *)
(* rows: nothing is flushed before the commit.                             *)
(***************************************************************************)
Session(db) ==
    [products  |-> db.products,  new_products  |-> <<>>,
     customers |-> db.customers, new_customers |-> <<>>,
     orders    |-> db.orders,    new_orders    |-> <<>>,
     raised    |-> FALSE]

\* db.commit(): the pending objects are inserted after the rows held
Commit(S) ==
    [products  |-> Flush(S.products, S.new_products),
     customers |-> Flush(S.customers, S.new_customers),
     orders    |-> Flush(S.orders, S.new_orders)]

\* the image of a variant (webhooks.py 39-48)
VariantImage(payload, v) ==
    IF v.image_id # NoId /\ Len(payload.images) > 0
    THEN LET i == First(payload.images, LAMBDA img : img.id = v.image_id)
         IN  IF i = 0 THEN Null ELSE payload.images[i].src
    ELSE payload.image

\* one pass of the loop of handle_product_webhook (webhooks.py 25-74)
ProductWebhookVariant(db, payload, v, S) ==
    IF S.raised THEN S
    ELSE LET i == First(db.products, LAMBDA r : r.shopify_id = v.id)
         IN  IF v.price.kind = "bad" THEN [S EXCEPT !.raised = TRUE]
             ELSE IF i # 0
             THEN [S EXCEPT !.products[i] = [@ EXCEPT
                         !.title = payload.title,
                         !.sku = v.sku,
                         !.barcode = v.barcode,
                         !.price = PriceFloat(v.price),
                         !.inventory_quantity = v.inventory_quantity,
                         !.variant_title = v.title,
                         !.image_url = VariantImage(payload, v)]]
             ELSE [S EXCEPT !.new_products = Append(@,
                        [id |-> 0,
                         shopify_id |-> v.id,
                         shopify_product_id |-> payload.id,
                         title |-> payload.title,
                         sku |-> v.sku,
                         barcode |-> v.barcode,
                         price |-> PriceFloat(v.price),
                         inventory_quantity |-> v.inventory_quantity,
                         variant_title |-> v.title,
                         image_url |-> VariantImage(payload, v)])]

RECURSIVE ProductWebhookLoop(_, _, _, _)
ProductWebhookLoop(db, payload, vs, S) ==
    IF vs = <<>> THEN S
    ELSE ProductWebhookLoop(db, payload, Tail(vs),
                            ProductWebhookVariant(db, payload, Head(vs), S))

handle_product_webhook(db, payload, S) ==
    ProductWebhookLoop(db, payload, payload.variants, S)

\* webhooks.py 83-101: a bulk DELETE inside the transaction
handle_product_delete(db, payload, S) ==
    [S EXCEPT !.products = All(@, LAMBDA r : r.shopify_product_id # payload.id)]

\* an update of every variant that shares the barcode of the matched one
InventoryUpdateByBarcode(db, payload, S) ==
    LET i == First(db.products, LAMBDA r : r.shopify_id = payload.inventory_item_id)
    IN  IF i # 0
        THEN [S EXCEPT !.products =
                [k \in 1..Len(@) |->
                    IF @[k].barcode = db.products[i].barcode
                    THEN [@[k] EXCEPT !.inventory_quantity = payload.available]
                    ELSE @[k]]]
        ELSE S

\* webhooks.py 104-129
handle_inventory_update(db, payload, S) ==
    LET i == First(db.products, LAMBDA r : r.shopify_id = payload.inventory_item_id)
    IN  IF i # 0
        THEN [S EXCEPT !.products[i].inventory_quantity = payload.available]
        ELSE S

\* webhooks.py 132-193
handle_customer_webhook(db, payload, S) ==
    LET i == First(db.customers, LAMBDA r : r.shopify_id = payload.id)
    IN  IF AddressRaises(payload) THEN [S EXCEPT !.raised = TRUE]
        ELSE IF i # 0
        THEN [S EXCEPT !.customers[i] = [CustomerRow(payload) EXCEPT !.id = db.customers[i].id]]
        ELSE [S EXCEPT !.new_customers = Append(@, CustomerRow(payload))]

\* str.lower() over the letters A-Z
UpperLetters == "ABCDEFGHIJKLMNOPQRSTUVWXYZ"
LowerLetters == "abcdefghijklmnopqrstuvwxyz"

LowerChar(c) ==
    IF \E i \in 1..Len(UpperLetters) : SubSeq(UpperLetters, i, i) = c
    THEN LET i == CHOOSE k \in 1..Len(UpperLetters) : SubSeq(UpperLetters, k, k) = c
         IN  SubSeq(LowerLetters, i, i)
    ELSE c

RECURSIVE Lower(_)
Lower(text) ==
    IF text = "" THEN ""
    ELSE LowerChar(SubSeq(text, 1, 1)) \o Lower(SubSeq(text, 2, Len(text)))

\* sub in text
Contains(text, sub) ==
    \E i \in 1..(Len(text) - Len(sub) + 1) : SubSeq(text, i, i + Len(sub) - 1) = sub

\* "cash" in text, the letters compared as they are
ContainsCashExact(text) == Contains(text, "cash")

\* "cash" in text.lower()
ContainsCash(text) == Contains(Lower(text), "cash")

\* webhooks.py 235-243
WebhookPaymentMethod(payload) ==
    IF ContainsCash(payload.tags) THEN "cash"
    ELSE IF payload.gateway # Null /\ payload.gateway # "" /\ ContainsCash(payload.gateway)
         THEN "cash"
    ELSE "pos"

\* an order never linked to a local customer
WebhookCustomerNone(db, payload) == NoId

\* webhooks.py 225-233
WebhookCustomerId(db, payload) ==
    IF payload.customer = NoId THEN NoId
    ELSE LET i == First(db.customers, LAMBDA r : r.shopify_id = payload.customer)
         IN  IF i = 0 THEN NoId ELSE db.customers[i].id

\* one pass of the loop over the line items (webhooks.py 247-273)
OrderWebhookItem(db, payload, item, S) ==
    IF S.raised THEN S
    ELSE LET i == IF item.variant_id = NoId THEN 0
                  ELSE First(db.products, LAMBDA r : r.shopify_id = item.variant_id)
         IN  IF item.price.kind = "bad" THEN [S EXCEPT !.raised = TRUE]
             ELSE [S EXCEPT !.new_orders = Append(@,
                    [id |-> 0,
                     shopify_order_id |-> payload.id,
                     customer_id |-> WebhookCustomerId(db, payload),
                     product_id |-> IF i = 0 THEN NoId ELSE db.products[i].id,
                     barcode |-> IF i = 0 THEN Null ELSE S.products[i].barcode,
                     title |-> item.title,
                     quantity |-> item.quantity,
                     price |-> PriceFloat(item.price),
                     payment_method |-> WebhookPaymentMethod(payload),
                     status |-> payload.financial_status])]

RECURSIVE OrderWebhookLoop(_, _, _, _)
OrderWebhookLoop(db, payload, items, S) ==
    IF items = <<>> THEN S
    ELSE OrderWebhookLoop(db, payload, Tail(items),
                          OrderWebhookItem(db, payload, Head(items), S))

\* an update that stops at the first row of the order
OrderWebhookFirstRow(db, payload, S) ==
    LET i == First(db.orders, LAMBDA r : r.shopify_order_id = payload.id)
    IN  IF i # 0
        THEN [S EXCEPT !.orders[i].status = payload.financial_status]
        ELSE OrderWebhookLoop(db, payload, payload.line_items, S)

\* webhooks.py 196-279
handle_order_webhook(db, payload, S) ==
    IF \E i \in 1..Len(db.orders) : db.orders[i].shopify_order_id = payload.id
    THEN [S EXCEPT !.orders =
            [i \in 1..Len(S.orders) |->
                IF db.orders[i].shopify_order_id = payload.id
                THEN [S.orders[i] EXCEPT !.status = payload.financial_status]
                ELSE S.orders[i]]]
    ELSE OrderWebhookLoop(db, payload, payload.line_items, S)

(***************************************************************************)
(* handle_webhook (main.py 2542-2642): the event is logged and committed   *)
(* as processing, the handler runs, and the event is finalised with a      *)
(* second commit, which also commits whatever the handler left in the      *)
(* session, whether it returned or raised.                                 *)
(***************************************************************************)
ProductTopics == {"products/create", "products/update"}
CustomerTopics == {"customers/create", "customers/update"}
OrderTopics == {"orders/create", "orders/paid", "orders/cancelled"}
HandledTopics ==
    ProductTopics \cup {"products/delete", "inventory_levels/update"}
        \cup CustomerTopics \cup OrderTopics

Dispatch(db, topic, payload) ==
    IF topic \in ProductTopics THEN handle_product_webhook(db, payload, Session(db))
    ELSE IF topic = "products/delete" THEN handle_product_delete(db, payload, Session(db))
    ELSE IF topic = "inventory_levels/update" THEN handle_inventory_update(db, payload, Session(db))
    ELSE IF topic \in CustomerTopics THEN handle_customer_webhook(db, payload, Session(db))
    ELSE handle_order_webhook(db, payload, Session(db))

EventRow(events, topic, payload, st, msg) ==
    [id |-> MaxId(events) + 1, topic |-> topic, shopify_id |-> payload.id,
     status |-> st, error_message |-> msg]

\* the column default of the status (models.py 140) in place of the value
\* the handler passes
LogEventDefault(events, topic, payload) ==
    Append(events, EventRow(events, topic, payload, "processed", Null))

\* main.py 2585-2593: the event is added as processing and committed
LogEvent(events, topic, payload) ==
    Append(events, EventRow(events, topic, payload, "processing", Null))

\* webhook_log.status = ...; webhook_log.error_message = ...
SetEvent(events, id, st, msg) ==
    [i \in 1..Len(events) |->
        IF events[i].id = id
        THEN [events[i] EXCEPT !.status = st, !.error_message = msg]
        ELSE events[i]]

\* the flush of a commit raises IntegrityError: a product without title or
\* without variant id (models.py 16, 18), a customer without external id
\* or with the external id of another row (models.py 58)
IntegrityError(rows) ==
    \/ \E i \in 1..Len(rows.products) :
          rows.products[i].title = Null \/ rows.products[i].shopify_id = NoId
    \/ \E i \in 1..Len(rows.customers) :
          \/ rows.customers[i].shopify_id = NoId
          \/ \E j \in 1..Len(rows.customers) :
                i # j /\ rows.customers[i].shopify_id = rows.customers[j].shopify_id

\* str(handler_error) of what the handlers of the model raise
HandlerMessage(topic) ==
    IF topic \in CustomerTopics THEN "'str' object has no attribute 'get'"
    ELSE "could not convert string to float"

\* main.py 2614-2633: the session S the handler left is committed together
\* with the status of event id, as processed when it returned and as
\* failed when it raised.  When the flush of that commit raises, the
\* session is left rolled back and refuses the commit of the status failed;
\* the outer handler rolls back and answers 500 (main.py 2638-2642).
FinishHandled(db, events, id, topic, S) ==
    IF IntegrityError(Commit(S))
    THEN [db |-> db, events |-> events, resp |-> [status |-> "error", code |-> 500]]
    ELSE IF S.raised
    THEN [db |-> Commit(S),
          events |-> SetEvent(events, id, "failed", HandlerMessage(topic)),
          resp |-> [status |-> "error", code |-> 500]]
    ELSE [db |-> Commit(S),
          events |-> SetEvent(events, id, "processed", Null),
          resp |-> [status |-> "ok", code |-> 200]]

\* a topic without handler taken as done: the event is marked processed
\* like the event of a handler that returned
FinishWebhookProcessed(db, events, id, topic, payload) ==
    IF topic \notin HandledTopics
    THEN [db |-> db,
          events |-> SetEvent(events, id, "processed", Null),
          resp |-> [status |-> "ok", code |-> 200]]
    ELSE FinishHandled(db, events, id, topic, Dispatch(db, topic, payload))

\* main.py 2595-2642: the part of the call after the event id was logged
FinishWebhook(db, events, id, topic, payload) ==
    IF topic \notin HandledTopics
    THEN [db |-> db,
          events |-> SetEvent(events, id, "skipped", "Unhandled topic: " \o topic),
          resp |-> [status |-> "skipped", code |-> 200]]
    ELSE FinishHandled(db, events, id, topic, Dispatch(db, topic, payload))

handle_webhook(db, events, topic, payload) ==
    FinishWebhook(db, LogEvent(events, topic, payload), MaxId(events) + 1, topic, payload)

(***************************************************************************)
(* The remote platform as the order endpoints see it: the orders it holds  *)
(* (ids are handed out in sequence) and the number of customers created    *)
(* through the API.  env holds the outcomes of the remote calls of one     *)
(* request and of the receipt generation.                                  *)
(***************************************************************************)
NextOrderId(rem) == Len(rem.orders) + 1
\* the ids of the customers created through the API start above the ids of
\* the customers the remote already has
NextCustomerSid(rem) == 3 + rem.customers_created

ErrorResp(code) ==
    [status |-> "error", code |-> code, shopify_order_id |-> NoId,
     original_amount |-> FZero, final_amount |-> FZero, items_count |-> 0,
     orders |-> <<>>, discount_applied |-> FZero]

\* an insert that no unique index guards
InsertCustomerUnchecked(tbl, c) ==
    IF AddressRaises(c) THEN [ok |-> FALSE, customers |-> tbl]
    ELSE [ok |-> TRUE, customers |-> Flush(tbl, <<CustomerRow(c)>>)]

\* db.add(customer); db.commit() for a customer read from the remote
\* (Customer.shopify_id is unique: models.py 58)
InsertCustomer(tbl, c) ==
    IF AddressRaises(c) \/ \E i \in 1..Len(tbl) : tbl[i].shopify_id = c.id
    THEN [ok |-> FALSE, customers |-> tbl]
    ELSE [ok |-> TRUE, customers |-> Flush(tbl, <<CustomerRow(c)>>)]

\* the customer the remote returns for a creation payload
CreatedCustomer(rem, nc) ==
    [id |-> NextCustomerSid(rem), first_name |-> nc.first_name,
     last_name |-> nc.last_name, email |-> nc.email, phone |-> nc.phone,
     addresses |-> nc.address]

\* a new customer looked up locally and searched at the remote, never created
ResolveNewBySearch(db, rem, nc, env) ==
    LET i == First(db.customers, LAMBDA r : r.email = nc.email)
    IN  IF i # 0
        THEN [code |-> 0, customer |-> db.customers[i], customers |-> db.customers,
              remote |-> rem, calls |-> <<>>]
        ELSE [code |-> 404, customer |-> Null, customers |-> db.customers,
              remote |-> rem, calls |-> <<"search_customer_by_email">>]

\* main.py 828-897: OPTION 1, a new customer
ResolveNewCustomer(db, rem, nc, env) ==
    LET i == First(db.customers, LAMBDA r : r.email = nc.email)
    IN  IF i # 0
        THEN [code |-> 0, customer |-> db.customers[i], customers |-> db.customers,
              remote |-> rem, calls |-> <<>>]
        ELSE IF ~env.created
        THEN [code |-> 500, customer |-> Null, customers |-> db.customers,
              remote |-> rem, calls |-> <<"create_customer">>]
        ELSE LET ins  == InsertCustomer(db.customers, CreatedCustomer(rem, nc))
                 rem1 == [rem EXCEPT !.customers_created = @ + 1]
             IN  IF ~ins.ok
                 THEN [code |-> 500, customer |-> Null, customers |-> db.customers,
                       remote |-> rem1, calls |-> <<"create_customer">>]
                 ELSE [code |-> 0, customer |-> ins.customers[Len(ins.customers)],
                       customers |-> ins.customers,
                       remote |-> rem1, calls |-> <<"create_customer", "commit">>]

\* main.py 899-943 (and 1240-1284): an existing customer by email; the
\* local store first, then the remote search, whose first match is saved
ResolveByEmail(db, rem, email, env) ==
    LET i == First(db.customers, LAMBDA r : r.email = email)
    IN  IF i # 0
        THEN [code |-> 0, customer |-> db.customers[i], customers |-> db.customers,
              remote |-> rem, calls |-> <<>>]
        ELSE IF env.search = <<>>
        THEN [code |-> 404, customer |-> Null, customers |-> db.customers,
              remote |-> rem, calls |-> <<"search_customer_by_email">>]
        ELSE LET ins == InsertCustomer(db.customers, env.search[1])
             IN  IF ~ins.ok
                 THEN [code |-> 500, customer |-> Null, customers |-> db.customers,
                       remote |-> rem, calls |-> <<"search_customer_by_email">>]
                 ELSE [code |-> 0, customer |-> ins.customers[Len(ins.customers)],
                       customers |-> ins.customers,
                       remote |-> rem, calls |-> <<"search_customer_by_email", "commit">>]

\* main.py 1001-1009 (and 1227-1236): the first matching variant with
\* stock, else the first one; comparing None with 0 raises TypeError
RECURSIVE StockScan(_, _)
StockScan(ps, i) ==
    IF i > Len(ps) THEN [raised |-> FALSE, index |-> 1]
    ELSE IF ps[i].inventory_quantity = PyNone THEN [raised |-> TRUE, index |-> 0]
    ELSE IF ps[i].inventory_quantity[1] > 0 THEN [raised |-> FALSE, index |-> i]
    ELSE StockScan(ps, i + 1)

SelectProduct(ps) == StockScan(ps, 1)

\* f"{title} - {size}" if size else title
FullTitle(title, size) ==
    IF Falsy(size) THEN title ELSE title \o " - " \o size

CartAcc == [line_items |-> <<>>, local_orders |-> <<>>, total |-> FZero, raised |-> FALSE]

\* a custom item of price price (main.py 959-986)
CustomItem(item, acc, price) ==
    IF Falsy(item.title) \/ FLe(price, FZero) THEN acc
    ELSE [acc EXCEPT
            !.line_items = Append(@,
                [title |-> FullTitle(item.title, item.size), quantity |-> item.quantity,
                 price |-> price, variant_id |-> NoId]),
            !.local_orders = Append(@,
                [type |-> "custom", title |-> FullTitle(item.title, item.size),
                 quantity |-> item.quantity, price |-> price,
                 barcode |-> Null, product_id |-> NoId]),
            !.total = FAdd(@, FMulInt(price, item.quantity))]

\* a barcode item sold as product (main.py 1011-1029)
ProductItem(item, acc, product) ==
    [acc EXCEPT
        !.line_items = Append(@,
            [title |-> product.title, quantity |-> item.quantity,
             price |-> product.price, variant_id |-> product.shopify_id]),
        !.local_orders = Append(@,
            [type |-> "barcode", title |-> product.title,
             quantity |-> item.quantity, price |-> product.price,
             barcode |-> item.barcode, product_id |-> product.id]),
        !.total = FAdd(@, FMulInt(product.price, item.quantity))]

\* a barcode item with the matching variants ps and the selection made
\* among them (main.py 998-1009)
BarcodeItem(item, acc, ps, sel) ==
    IF ps = <<>> THEN acc
    ELSE IF sel.raised THEN [acc EXCEPT !.raised = TRUE]
    ELSE ProductItem(item, acc, ps[sel.index])

\* one pass of the loop over the cart (main.py 950-1031)
CartItem(db, item, acc) ==
    IF acc.raised THEN acc
    ELSE IF item.type = "custom"
    THEN IF item.price.kind = "bad" THEN [acc EXCEPT !.raised = TRUE]
         ELSE CustomItem(item, acc, PriceFloat(item.price))
    ELSE IF Falsy(item.barcode) THEN acc
    ELSE BarcodeItem(item, acc,
                     All(db.products, LAMBDA r : r.barcode = item.barcode),
                     SelectProduct(All(db.products, LAMBDA r : r.barcode = item.barcode)))

RECURSIVE CartLoop(_, _, _)
CartLoop(db, items, acc) ==
    IF items = <<>> THEN acc
    ELSE CartLoop(db, Tail(items), CartItem(db, Head(items), acc))

OneOrderRow(local_orders, order_id, customer_id, payment_method) ==
    IF local_orders = <<>> THEN <<>>
    ELSE <<[id |-> 0,
            shopify_order_id |-> order_id,
            customer_id |-> customer_id,
            product_id |-> Head(local_orders).product_id,
            barcode |-> Head(local_orders).barcode,
            title |-> Head(local_orders).title,
            quantity |-> Head(local_orders).quantity,
            price |-> Head(local_orders).price,
            payment_method |-> payment_method,
            status |-> "completed"]>>

\* the local rows of an order (main.py 1093-1122)
RECURSIVE OrderRows(_, _, _, _)
OrderRows(local_orders, order_id, customer_id, payment_method) ==
    IF local_orders = <<>> THEN <<>>
    ELSE <<[id |-> 0,
            shopify_order_id |-> order_id,
            customer_id |-> customer_id,
            product_id |-> Head(local_orders).product_id,
            barcode |-> Head(local_orders).barcode,
            title |-> Head(local_orders).title,
            quantity |-> Head(local_orders).quantity,
            price |-> Head(local_orders).price,
            payment_method |-> payment_method,
            status |-> "completed"]>>
         \o OrderRows(Tail(local_orders), order_id, customer_id, payment_method)

PaymentMethods == {"cash", "pos"}

\* what a request did: the tables it leaves committed, the remote after
\* it, its response, the remote calls and the commits it made, in order,
\* the id of the remote order it obtained and whether the receipt was
\* generated
Outcome(db, rem, resp, calls, order_id, receipt) ==
    [db |-> db, remote |-> rem, resp |-> resp, calls |-> calls,
     order_id |-> order_id, receipt |-> receipt]

Rejected(db, rem, code, calls) ==
    Outcome(db, rem, ErrorResp(code), calls, NoId, "none")

AlwaysCreated(env) == TRUE

\* the remote call returned an order: it did not raise and its answer
\* holds one (main.py 1080-1087, 1287-1297, 1487-1503)
RemoteOrderCreated(env) == env.order = "ok"

ReceiptFailureFails(db, out, env) ==
    IF env.pdf = "ok"
    THEN [out EXCEPT !.calls = Append(@, "generate_order_pdf"), !.receipt = "generated"]
    ELSE Rejected(db, out.remote, 500, Append(out.calls, "generate_order_pdf"))

\* main.py 1129-1157: the receipt of the committed order out; what
\* generate_order_pdf raises is caught and logged.  db holds the tables
\* before the order rows.
GenerateReceipt(db, out, env) ==
    [out EXCEPT !.calls = Append(@, "generate_order_pdf"),
                !.receipt = IF env.pdf = "ok" THEN "generated" ELSE "failed"]

\* the order sent to the remote (main.py 1053-1077); str() of a float
\* reads back as the same float, so amounts are kept as floats
CartOrderPayload(rem, line_items, final, customer, req) ==
    [id |-> NextOrderId(rem),
     source |-> "create-cart",
     line_items |-> line_items,
     tags |-> "in-store, " \o req.payment_method,
     financial_status |-> "paid",
     email |-> customer.email,
     customer |-> customer.shopify_id,
     amount |-> final,
     gateway |-> IF req.payment_method = "cash" THEN "cash" ELSE "pos"]

\* main.py 1079-1174: the remote order, the local rows, the commit and
\* the receipt; applied is the discount subtracted, final the amount charged
CartOrder(db, req, env, rc, acc, applied, final, line_items) ==
    IF ~RemoteOrderCreated(env)
    THEN Rejected(db, rc.remote, 500, Append(rc.calls, "create_order"))
    ELSE GenerateReceipt(db, Outcome(
           [db EXCEPT !.orders =
                Flush(@, OrderRows(acc.local_orders, NextOrderId(rc.remote),
                                   rc.customer.id, req.payment_method))],
           [rc.remote EXCEPT !.orders =
                Append(@, CartOrderPayload(rc.remote, line_items, final, rc.customer, req))],
           [status |-> "success", code |-> 200,
            shopify_order_id |-> NextOrderId(rc.remote),
            original_amount |-> acc.total, final_amount |-> final,
            items_count |-> Len(line_items),
            orders |-> OrderRows(acc.local_orders, NextOrderId(rc.remote),
                                 rc.customer.id, req.payment_method),
            discount_applied |-> applied],
           rc.calls \o <<"create_order", "commit">>, NextOrderId(rc.remote), "none"), env)

\* a discount subtracted from the amount but sent as no line item
CartDiscountNoLine(db, req, env, rc, acc, discount) ==
    IF FGt(discount, FZero)
    THEN IF FGe(discount, acc.total) THEN Rejected(db, rc.remote, 400, rc.calls)
         ELSE CartOrder(db, req, env, rc, acc, discount, FSub(acc.total, discount),
                        acc.line_items)
    ELSE CartOrder(db, req, env, rc, acc, FZero, acc.total, acc.line_items)

\* main.py 1039-1077: the discount, subtracted when positive and sent as
\* one more line item of negative price
CartDiscount(db, req, env, rc, acc, discount) ==
    IF FGt(discount, FZero)
    THEN IF FGe(discount, acc.total) THEN Rejected(db, rc.remote, 400, rc.calls)
         ELSE CartOrder(db, req, env, rc, acc, discount, FSub(acc.total, discount),
                        Append(acc.line_items,
                               [title |-> "Discount - " \o req.discount_reason,
                                quantity |-> 1, price |-> FNeg(discount),
                                variant_id |-> NoId]))
    ELSE CartOrder(db, req, env, rc, acc, FZero, acc.total, acc.line_items)

\* main.py 1033-1037: the cart after the loop
CartTotal(db, req, env, rc, acc) ==
    IF acc.raised THEN Rejected(db, rc.remote, 500, rc.calls)
    ELSE IF acc.line_items = <<>> THEN Rejected(db, rc.remote, 400, rc.calls)
    ELSE CartDiscount(db, req, env, rc, acc, FParseCents(req.discount))

\* main.py 945-1031: the cart of the customer resolved as rc; db holds
\* the customer committed on the way
CartOfCustomer(db, req, env, rc) ==
    IF rc.code # 0 THEN Rejected(db, rc.remote, rc.code, rc.calls)
    ELSE CartTotal(db, req, env, rc, CartLoop(db, req.items, CartAcc))

CartCustomer(db, req, env, rc) ==
    CartOfCustomer([db EXCEPT !.customers = rc.customers], req, env, rc)

\* main.py 750-1186
create_order_from_cart(db, rem, req, env) ==
    IF req.items = <<>> THEN Rejected(db, rem, 400, <<>>)
    ELSE IF req.payment_method \notin PaymentMethods THEN Rejected(db, rem, 400, <<>>)
    ELSE IF Falsy(req.email) /\ req.new_customer = <<>> THEN Rejected(db, rem, 400, <<>>)
    ELSE IF ~Falsy(req.email) /\ req.new_customer # <<>> THEN Rejected(db, rem, 400, <<>>)
    ELSE IF req.new_customer # <<>>
    THEN CartCustomer(db, req, env, ResolveNewCustomer(db, rem, req.new_customer[1], env))
    ELSE CartCustomer(db, req, env, ResolveByEmail(db, rem, req.email, env))

\* main.py 621-706: the customer is created at the remote and the record
\* the remote returns is stored
CreateCustomerStored(db, rem, ins) ==
    IF ~ins.ok THEN Rejected(db, rem, 500, <<"create_customer">>)
    ELSE Outcome([db EXCEPT !.customers = ins.customers], rem,
                 [status |-> "created", code |-> 200,
                  customer |-> ins.customers[Len(ins.customers)]],
                 <<"create_customer", "commit">>, NoId, "none")

create_customer(db, rem, nc, env) ==
    IF ~env.created THEN Rejected(db, rem, 500, <<"create_customer">>)
    ELSE CreateCustomerStored(db, [rem EXCEPT !.customers_created = @ + 1],
                              InsertCustomer(db.customers, CreatedCustomer(rem, nc)))

\* ShopifyAPI.create_order (shopify.py 285-334): one line item of quantity 1
\* charged at the price of the product
CreateOrderPayload(rem, product, customer, payment_method) ==
    [id |-> NextOrderId(rem),
     source |-> "create",
     line_items |-> <<[title |-> product.title, quantity |-> 1,
                       price |-> product.price, variant_id |-> product.shopify_id]>>,
     tags |-> "in-store, " \o payment_method,
     financial_status |-> "paid",
     email |-> customer.email,
     customer |-> customer.shopify_id,
     amount |-> product.price,
     gateway |-> IF payment_method = "cash" THEN "cash" ELSE "pos"]

\* the local row of create_order_endpoint (main.py 1299-1310)
CreateOrderRow(req, product, rc) ==
    [id |-> 0,
     shopify_order_id |-> NextOrderId(rc.remote),
     customer_id |-> rc.customer.id,
     product_id |-> product.id,
     barcode |-> req.barcode,
     title |-> product.title,
     quantity |-> req.quantity,
     price |-> product.price,
     payment_method |-> req.payment_method,
     status |-> "completed"]

\* main.py 1286-1323: the order of product for the customer resolved as rc
CreateOrderOf(db, req, env, product, rc) ==
    IF rc.code # 0 THEN Rejected(db, rc.remote, rc.code, rc.calls)
    ELSE IF ~RemoteOrderCreated(env)
    THEN Rejected(db, rc.remote, 500, Append(rc.calls, "create_order"))
    ELSE Outcome(
           [db EXCEPT !.orders = Flush(@, <<CreateOrderRow(req, product, rc)>>)],
           [rc.remote EXCEPT !.orders =
                Append(@, CreateOrderPayload(rc.remote, product, rc.customer,
                                             req.payment_method))],
           [status |-> "success", code |-> 200,
            shopify_order_id |-> NextOrderId(rc.remote),
            original_amount |-> product.price, final_amount |-> product.price,
            items_count |-> 1, orders |-> <<CreateOrderRow(req, product, rc)>>,
            discount_applied |-> FZero],
           rc.calls \o <<"create_order", "commit">>, NextOrderId(rc.remote), "none")

CreateOrderCustomer(db, req, env, product, rc) ==
    CreateOrderOf([db EXCEPT !.customers = rc.customers], req, env, product, rc)

\* main.py 1227-1284: the selection among the variants ps of the barcode,
\* then the customer
CreateOrderSelect(db, rem, req, env, ps, sel) ==
    IF ps = <<>> THEN Rejected(db, rem, 404, <<>>)
    ELSE IF sel.raised THEN Rejected(db, rem, 500, <<>>)
    ELSE CreateOrderCustomer(db, req, env, ps[sel.index],
                             ResolveByEmail(db, rem, req.email, env))

\* main.py 1189-1335
create_order_endpoint(db, rem, req, env) ==
    IF req.payment_method \notin PaymentMethods THEN Rejected(db, rem, 400, <<>>)
    ELSE CreateOrderSelect(db, rem, req, env,
            All(db.products, LAMBDA r : r.barcode = req.barcode),
            SelectProduct(All(db.products, LAMBDA r : r.barcode = req.barcode)))

\* main.py 1442-1481: the customer of a manual order is optional, and a
\* miss in the remote search leaves the order without one
ResolveOptional(db, rem, email, env) ==
    IF Falsy(email) \/ (First(db.customers, LAMBDA r : r.email = email) = 0
                        /\ env.search = <<>>)
    THEN [code |-> 0, customer |-> [id |-> NoId, email |-> Null, shopify_id |-> NoId],
          customers |-> db.customers, remote |-> rem,
          calls |-> IF Falsy(email) THEN <<>> ELSE <<"search_customer_by_email">>]
    ELSE ResolveByEmail(db, rem, email, env)

\* ShopifyAPI.create_manual_order (shopify.py 449-522)
ManualOrderPayload(rem, req, customer, price, discount) ==
    [id |-> NextOrderId(rem),
     source |-> "manual-create",
     line_items |->
        IF FGt(discount, FZero)
        THEN <<[title |-> FullTitle(req.title, req.size), quantity |-> req.quantity,
                price |-> price, variant_id |-> NoId],
               [title |-> "Discount", quantity |-> 1,
                price |-> FNeg(discount), variant_id |-> NoId]>>
        ELSE <<[title |-> FullTitle(req.title, req.size), quantity |-> req.quantity,
                price |-> price, variant_id |-> NoId]>>,
     tags |-> "in-store, manual, " \o req.payment_method,
     financial_status |-> "paid",
     email |-> customer.email,
     customer |-> customer.shopify_id,
     amount |-> FSub(FMulInt(price, req.quantity), discount),
     gateway |-> IF req.payment_method = "cash" THEN "cash" ELSE "pos"]

\* the local row of a manual order (main.py 1505-1516)
ManualOrderRow(req, rc, price) ==
    [id |-> 0,
     shopify_order_id |-> NextOrderId(rc.remote),
     customer_id |-> rc.customer.id,
     product_id |-> NoId,
     barcode |-> Null,
     title |-> FullTitle(req.title, req.size),
     quantity |-> req.quantity,
     price |-> price,
     payment_method |-> req.payment_method,
     status |-> "completed"]

\* main.py 1487-1535
ManualOrderOf(db, req, env, rc, price, discount, item_total) ==
    IF rc.code # 0 THEN Rejected(db, rc.remote, rc.code, rc.calls)
    ELSE IF ~RemoteOrderCreated(env)
    THEN Rejected(db, rc.remote, 500, Append(rc.calls, "create_order"))
    ELSE Outcome(
           [db EXCEPT !.orders = Flush(@, <<ManualOrderRow(req, rc, price)>>)],
           [rc.remote EXCEPT !.orders =
                Append(@, ManualOrderPayload(rc.remote, req, rc.customer, price, discount))],
           [status |-> "success", code |-> 200,
            shopify_order_id |-> NextOrderId(rc.remote),
            original_amount |-> item_total,
            final_amount |-> FSub(item_total, discount),
            items_count |-> 1, orders |-> <<ManualOrderRow(req, rc, price)>>,
            discount_applied |-> IF FGt(discount, FZero) THEN discount ELSE FZero],
           rc.calls \o <<"create_order", "commit">>, NextOrderId(rc.remote), "none")

ManualOrderCustomer(db, req, env, rc, price, discount, item_total) ==
    ManualOrderOf([db EXCEPT !.customers = rc.customers], req, env, rc,
                  price, discount, item_total)

\* main.py 1407-1440: the validations
ManualOrderChecked(db, rem, req, env, price, discount, item_total) ==
    IF Falsy(req.title) THEN Rejected(db, rem, 400, <<>>)
    ELSE IF FLe(price, FZero) THEN Rejected(db, rem, 400, <<>>)
    ELSE IF req.payment_method \notin PaymentMethods THEN Rejected(db, rem, 400, <<>>)
    ELSE IF req.quantity < 1 THEN Rejected(db, rem, 400, <<>>)
    ELSE IF FGe(discount, item_total) THEN Rejected(db, rem, 400, <<>>)
    ELSE ManualOrderCustomer(db, req, env, ResolveOptional(db, rem, req.email, env),
                             price, discount, item_total)

\* main.py 1377-1549
create_manual_order_endpoint(db, rem, req, env) ==
    ManualOrderChecked(db, rem, req, env, FParseCents(req.price),
                       FParseCents(req.discount),
                       FMulInt(FParseCents(req.price), req.quantity))

(***************************************************************************)
(* The inputs: what the remote may return to a sync, the webhooks it may   *)
(* deliver and the requests of the point of sale.                          *)
(***************************************************************************)
MaxVariants == 2
MaxEvents == 1
MaxOrderEvents == 2
MaxOrders == 1
MaxCreated == 1
MaxCart == 2
MaxDeliveries == 2
MaxWriters == 2
MaxPages == 3

SeqsUpTo(S, n) == UNION {[1..k -> S] : k \in 0..n}

RemoteVariant(id, barcode, price, qty) ==
    [id |-> id, title |-> "M", sku |-> "sku", barcode |-> barcode, price |-> price,
     inventory_quantity |-> qty, image_id |-> NoId]

RemoteProduct(id, title) ==
    [id |-> id, title |-> title, variants |-> <<>>, images |-> <<>>, image |-> Null]

Entry(product, variant) == [product |-> product, variant |-> variant]

\* the products of a fetched page: consecutive variants of one product
\* come as the variants of that product
RECURSIVE Catalog(_)
Catalog(es) ==
    IF es = <<>> THEN <<>>
    ELSE LET rest == Catalog(Tail(es))
             e == Head(es)
         IN  IF rest # <<>> /\ rest[1].id = e.product.id /\ rest[1].title = e.product.title
             THEN <<[rest[1] EXCEPT !.variants = <<e.variant>> \o @]>> \o Tail(rest)
             ELSE <<[e.product EXCEPT !.variants = <<e.variant>>]>> \o rest

Shirt == RemoteProduct(1, "shirt")
Scarf == RemoteProduct(2, "scarf")

\* two variants of one barcode, the first out of stock
ShirtS == Entry(Shirt, RemoteVariant(11, "b1", PriceDec(10000), PyInt(0)))
ShirtM == Entry(Shirt, RemoteVariant(12, "b1", PriceDec(9999), PyInt(5)))
\* the first variant again, moved to another product, barcode and price
ShirtS2 == Entry(Scarf, RemoteVariant(11, "b0", PriceNull, PyNone))
\* a price that float() rejects, a variant without barcode, a product
\* without title
BadPrice == Entry(Scarf, RemoteVariant(13, "b3", PriceBad, PyInt(1)))
NoBarcode == Entry(Scarf, RemoteVariant(14, Null, PriceDec(500), PyInt(1)))
NoTitle == Entry(RemoteProduct(3, Null), RemoteVariant(15, "b1", PriceDec(500), PyInt(1)))

VariantPool == {ShirtS, ShirtM, ShirtS2, BadPrice, NoBarcode, NoTitle}

Catalogs == {Catalog(es) : es \in SeqsUpTo(VariantPool, MaxVariants)}

\* the catalog of the shop of the order scenarios
ShopCatalogs == {Catalog(<<ShirtS, ShirtM>>), Catalog(<<ShirtS2>>)}

RemoteAddress == [kind |-> "obj", address1 |-> "1 Main St", address2 |-> "",
                  city |-> "Izmir", country |-> "TR"]

RemoteCustomer(id, email, addresses) ==
    [id |-> id, first_name |-> "Ada", last_name |-> "L", email |-> email,
     phone |-> Null, addresses |-> addresses]

Ada == RemoteCustomer(1, "ada@x.io", <<RemoteAddress>>)
\* the same customer after a change of email and address
Ada2 == RemoteCustomer(1, "ada@y.io", <<>>)
Bob == RemoteCustomer(2, "bob@x.io", <<>>)
\* an address list whose first entry is no object
BadAddress == RemoteCustomer(2, "bob@x.io", <<[kind |-> "text"]>>)

CustomerPool == {Ada, Ada2, Bob, BadAddress}

CustomerPages == SeqsUpTo(CustomerPool, MaxVariants)

\* webhook deliveries about the catalog
ProductEvents ==
    {[topic |-> "products/update", payload |-> Catalog(<<e>>)[1]] :
        e \in VariantPool \ {NoTitle}}
    \cup {[topic |-> "products/delete", payload |-> [id |-> Shirt.id]]}

InventoryEvents ==
    {[topic |-> "inventory_levels/update",
      payload |-> [id |-> NoId, inventory_item_id |-> ShirtS.variant.id, available |-> a]] :
        a \in {PyNone, PyInt(2)}}

RemoteItem(title, price) ==
    [title |-> title, quantity |-> 1, price |-> price, variant_id |-> NoId]

\* the line item lists of an order webhook
ItemLists == {<<>>, <<RemoteItem("hem", PriceDec(1500))>>,
              <<RemoteItem("hem", PriceDec(1500)), RemoteItem("bag", PriceDec(100)),
                RemoteItem("tip", PriceDec(10))>>}

OrderPayload(id, financial_status, items) ==
    [id |-> id, financial_status |-> financial_status, line_items |-> items,
     customer |-> NoId, tags |-> "", gateway |-> Null]

\* an order placed online, outside the point of sale
OnlineOrderIds == {900}

\* webhook deliveries about the orders the remote holds
OrderEvents ==
    {[topic |-> "orders/paid", payload |-> OrderPayload(id, fs, items)] :
        id \in {remote.orders[i].id : i \in 1..Len(remote.orders)} \cup OnlineOrderIds,
        fs \in {"paid", "refunded"}, items \in ItemLists}

(***************************************************************************)
(* The state machine.  Every request is one step: the handler runs on its  *)
(* own session from the committed tables, and last records the request,    *)
(* the tables before it and what it answered.                              *)
(***************************************************************************)
NoRemote == [orders |-> <<>>, customers_created |-> 0]

Init ==
    /\ products = <<>>
    /\ customers = <<>>
    /\ orders = <<>>
    /\ webhook_events = <<>>
    /\ remote = NoRemote
    /\ last = [op |-> "init", req |-> <<>>, env |-> <<>>, pre |-> <<>>, resp |-> <<>>,
               calls |-> <<>>, order_id |-> NoId, receipt |-> "none", repeat |-> FALSE]
    /\ sessions = <<>>

Pre == [products |-> products, customers |-> customers, orders |-> orders,
        webhook_events |-> webhook_events, remote |-> remote]

SyncProducts(catalogs) ==
    \E fetched \in catalogs :
        LET out == sync_products(products, fetched)
        IN  /\ products' = out.products
            /\ last' = [op |-> "sync_products", req |-> fetched, env |-> <<>>, pre |-> Pre,
                        resp |-> out.resp, calls |-> <<>>, order_id |-> NoId,
                        receipt |-> "none",
                        repeat |-> last.op = "sync_products" /\ last.req = fetched]
            /\ UNCHANGED <<customers, orders, webhook_events, remote, sessions>>

SyncCustomers ==
    \E fetched \in CustomerPages :
        LET out == sync_customers(customers, fetched)
        IN  /\ customers' = out.customers
            /\ last' = [op |-> "sync_customers", req |-> fetched, env |-> <<>>, pre |-> Pre,
                        resp |-> out.resp, calls |-> <<>>, order_id |-> NoId,
                        receipt |-> "none",
                        repeat |-> last.op = "sync_customers" /\ last.req = fetched]
            /\ UNCHANGED <<products, orders, webhook_events, remote, sessions>>

GetProductByBarcode ==
    \E barcode \in {"b0", "b1", "b9"} :
        /\ last' = [op |-> "get_product_by_barcode", req |-> barcode, env |-> <<>>,
                    pre |-> Pre, resp |-> get_product_by_barcode(products, barcode),
                    calls |-> <<>>, order_id |-> NoId, receipt |-> "none",
                    repeat |-> FALSE]
        /\ UNCHANGED <<products, customers, orders, webhook_events, remote, sessions>>

\* a delivery out of events, while the log holds less than max of them
Webhook(events, max) ==
    \E w \in events :
        LET out == handle_webhook(Tables, webhook_events, w.topic, w.payload)
        IN  /\ Len(webhook_events) < max
            /\ products' = out.db.products
            /\ customers' = out.db.customers
            /\ orders' = out.db.orders
            /\ webhook_events' = out.events
            /\ last' = [op |-> "handle_webhook", req |-> w, env |-> <<>>, pre |-> Pre,
                        resp |-> out.resp, calls |-> <<>>, order_id |-> NoId,
                        receipt |-> "none", repeat |-> FALSE]
            /\ UNCHANGED <<remote, sessions>>

\* the catalog side of the store.  The product handlers and the customer
\* sync work on disjoint tables, so a run exercises one of the two.
NextCatalog ==
    \/ customers = <<>> /\ SyncProducts(Catalogs)
    \/ products = <<>> /\ webhook_events = <<>> /\ SyncCustomers
    \/ customers = <<>> /\ GetProductByBarcode
    \/ customers = <<>> /\ Webhook(ProductEvents \cup InventoryEvents, MaxEvents)

Spec == Init /\ [][NextCatalog]_vars

(***************************************************************************)
(* The requests of the point of sale.                                      *)
(***************************************************************************)
Bar(barcode) ==
    [type |-> "barcode", barcode |-> barcode, title |-> Null, size |-> "",
     price |-> PriceNull, quantity |-> 1]

Custom(title, cents, quantity) ==
    [type |-> "custom", barcode |-> Null, title |-> title, size |-> "",
     price |-> PriceDec(cents), quantity |-> quantity]

CartRequest(items, discount, payment_method, email, new_customer) ==
    [items |-> items, payment_method |-> payment_method, email |-> email,
     new_customer |-> new_customer, discount |-> discount, discount_reason |-> "promo"]

NewCustomer == [first_name |-> "Cem", last_name |-> "K", email |-> "cem@x.io",
                phone |-> Null, address |-> <<>>]

\* the outcomes of the remote calls of a request and of its receipt
EnvOk == [created |-> TRUE, search |-> <<Ada>>, order |-> "ok", pdf |-> "ok"]
EnvNoCustomer == [EnvOk EXCEPT !.created = FALSE, !.search = <<>>]
EnvOrderRaises == [EnvOk EXCEPT !.order = "raise"]
EnvNoOrder == [EnvOk EXCEPT !.order = "none"]
EnvNoReceipt == [EnvOk EXCEPT !.pdf = "raise"]

\* carts of a known customer: a barcode two variants share, the barcode of
\* a variant without price, a custom item and one without title
CartPool == {Bar("b1"), Bar("b0"), Custom("hem", 10000, 1), Custom("", 10000, 1)}

\* discounts in hundredths
Discounts == {0, 9999, 10000}

\* a cart of 0.10 and 0.20 with the discounts 0.29 and 0.30
SmallChangeCarts ==
    {CartRequest(<<Custom("pin", 10, 1), Custom("tag", 20, 1)>>, d, "cash", Ada.email, <<>>) :
        d \in {29, 30}}

CartRequests ==
    {CartRequest(items, d, "cash", Ada.email, <<>>) :
        items \in SeqsUpTo(CartPool, MaxCart), d \in Discounts}
    \cup SmallChangeCarts

CartEnvs == {EnvOk, EnvOrderRaises, EnvNoOrder, EnvNoReceipt}

\* the carts of the order scenarios: every way of naming the customer
OrderCartRequests ==
    {CartRequest(items, 0, "cash", c[1], c[2]) :
        items \in {<<Bar("b1")>>, <<Custom("hem", 10000, 1), Bar("b1")>>},
        c \in {<<Ada.email, <<>>>>, <<Null, <<NewCustomer>>>>, <<Null, <<>>>>}}
    \cup {CartRequest(<<Bar("b1")>>, 0, "card", Ada.email, <<>>)}

OrderEnvs == {EnvOk, EnvNoCustomer, EnvOrderRaises, EnvNoOrder}

CreateRequests ==
    {[barcode |-> b, payment_method |-> pm, email |-> Ada.email, quantity |-> 2] :
        b \in {"b1", "zz"}, pm \in {"pos", "card"}}

ManualRequests ==
    {[title |-> "hem", size |-> "L", price |-> 10000, quantity |-> 1, discount |-> d,
      payment_method |-> "pos", email |-> email] :
        d \in {0, 10000}, email \in {Null, Ada.email}}

\* an order request as a step: handler is the outcome of the endpoint
OrderStep(op, req, env, out) ==
    /\ Len(remote.orders) < MaxOrders
    /\ out.remote.customers_created <= MaxCreated
    /\ customers' = out.db.customers
    /\ orders' = out.db.orders
    /\ remote' = out.remote
    /\ last' = [op |-> op, req |-> req, env |-> env, pre |-> Pre, resp |-> out.resp,
                calls |-> out.calls, order_id |-> out.order_id, receipt |-> out.receipt,
                repeat |-> FALSE]
    /\ UNCHANGED <<products, webhook_events, sessions>>

CreateOrderFromCart(requests, envs) ==
    \E req \in requests, env \in envs :
        OrderStep("create_order_from_cart", req, env,
                  create_order_from_cart(Tables, remote, req, env))

CreateOrderEndpoint ==
    \E req \in CreateRequests, env \in OrderEnvs :
        OrderStep("create_order_endpoint", req, env,
                  create_order_endpoint(Tables, remote, req, env))

ManualOrder(requests, envs) ==
    \E req \in requests, env \in envs :
        OrderStep("create_manual_order_endpoint", req, env,
                  create_manual_order_endpoint(Tables, remote, req, env))

CreateManualOrderEndpoint == ManualOrder(ManualRequests, OrderEnvs)

\* the cart endpoint over a synced shop
NextCart ==
    \/ SyncProducts(ShopCatalogs)
    \/ CreateOrderFromCart(CartRequests, CartEnvs)

SpecCart == Init /\ [][NextCart]_vars

\* the three order endpoints and the webhooks about stock and orders
NextOrders ==
    \/ SyncProducts(ShopCatalogs)
    \/ CreateOrderFromCart(OrderCartRequests, OrderEnvs)
    \/ CreateOrderEndpoint
    \/ CreateManualOrderEndpoint
    \/ Webhook(InventoryEvents \cup OrderEvents, MaxEvents)

SpecOrders == Init /\ [][NextOrders]_vars

\* carts of custom items, which need no product
CustomCartRequests ==
    {CartRequest(items, 0, "pos", Ada.email, <<>>) :
        items \in {<<Custom("hem", 10000, 1)>>,
                   <<Custom("hem", 10000, 1), Custom("tip", 10, 3)>>}}

\* orders of the point of sale and of the online shop, and the webhooks
\* about them
NextOrderWebhook ==
    \/ CreateOrderFromCart(CustomCartRequests, {EnvOk})
    \/ Webhook(OrderEvents, MaxOrderEvents)

SpecOrderWebhook == Init /\ [][NextOrderWebhook]_vars

(***************************************************************************)
(* The customer table under every request that writes it.                  *)
(***************************************************************************)
\* the customer the remote creates next, as its customers/create delivery
\* announces it
Cem == [NewCustomer EXCEPT !.address = <<RemoteAddress>>]

CustomerEvents ==
    {[topic |-> "customers/update", payload |-> c] : c \in {Ada2, Bob}}
    \cup {[topic |-> "customers/create", payload |-> CreatedCustomer(remote, Cem)]}

CreateCustomer ==
    \E nc \in {NewCustomer, Cem}, env \in {EnvOk, EnvNoCustomer} :
        OrderStep("create_customer", nc, env, create_customer(Tables, remote, nc, env))

NextCustomers ==
    \/ SyncCustomers
    \/ Webhook(CustomerEvents, MaxEvents)
    \/ CreateCustomer
    \/ CreateOrderFromCart(CustomCartRequests, {EnvOk, EnvNoCustomer})

SpecCustomers == Init /\ [][NextCustomers]_vars

(***************************************************************************)
(* A webhook call in its two commits: the event is logged, and a session   *)
(* that has logged its event runs the handler and finalises the event.     *)
(* sessions holds the calls between the two.                               *)
(***************************************************************************)
\* a product with a second variant whose price float() rejects, a product
\* without title, a customer whose address raises, a topic without
\* handler, an online order whose second line item has a bad price
WebhookPool ==
    {[topic |-> "products/update",
      payload |-> [Shirt EXCEPT !.variants = <<ShirtS.variant, BadPrice.variant>>]],
     [topic |-> "products/update", payload |-> Catalog(<<ShirtS2>>)[1]],
     [topic |-> "products/create", payload |-> Catalog(<<NoTitle>>)[1]],
     [topic |-> "customers/create", payload |-> Ada],
     [topic |-> "customers/update", payload |-> BadAddress],
     [topic |-> "app/uninstalled", payload |-> [id |-> 7]],
     [topic |-> "orders/create",
      payload |-> OrderPayload(900, "paid", <<RemoteItem("hem", PriceDec(1500)),
                                              RemoteItem("bag", PriceBad)>>)]}

\* main.py 2560-2593
WebhookLogged(events, max) ==
    \E w \in events :
        /\ sessions = <<>>
        /\ Len(webhook_events) < max
        /\ webhook_events' = LogEvent(webhook_events, w.topic, w.payload)
        /\ sessions' = <<[op |-> "handle_webhook", req |-> w,
                          event_id |-> MaxId(webhook_events) + 1, pre |-> Pre]>>
        /\ UNCHANGED <<products, customers, orders, remote, last>>

\* main.py 2595-2642
WebhookDispatched ==
    /\ sessions # <<>>
    /\ sessions[1].op = "handle_webhook"
    /\ LET s == sessions[1]
           out == FinishWebhook(Tables, webhook_events, s.event_id, s.req.topic,
                                s.req.payload)
       IN  /\ products' = out.db.products
           /\ customers' = out.db.customers
           /\ orders' = out.db.orders
           /\ webhook_events' = out.events
           /\ last' = [op |-> "handle_webhook", req |-> s.req, env |-> <<>>,
                       pre |-> s.pre, resp |-> out.resp, calls |-> <<>>,
                       order_id |-> NoId, receipt |-> "none", repeat |-> FALSE]
    /\ sessions' = <<>>
    /\ UNCHANGED remote

NextWebhook ==
    \/ WebhookLogged(WebhookPool, MaxDeliveries)
    \/ WebhookDispatched

SpecWebhook == Init /\ [][NextWebhook]_vars

(***************************************************************************)
(* Orders placed outside the point of sale, which reach the store only by  *)
(* webhook, over a synced catalog and customer table.                      *)
(***************************************************************************)
VariantItem(title, variant_id) ==
    [title |-> title, quantity |-> 1, price |-> PriceDec(1500), variant_id |-> variant_id]

\* no line item; one of a stored variant; one without variant, one of an
\* unknown variant and one of a stored variant
OnlineItemLists ==
    {<<>>, <<VariantItem("shirt", ShirtS.variant.id)>>,
     <<VariantItem("hem", NoId), VariantItem("cap", 99),
       VariantItem("shirt", ShirtM.variant.id)>>}

\* orders without customer, of a stored customer and of an unknown one
OnlineOrderEvents ==
    {[topic |-> "orders/create",
      payload |-> [OrderPayload(id, "paid", items) EXCEPT !.customer = c]] :
        id \in {900, 901}, items \in OnlineItemLists, c \in {NoId, Ada.id, 7}}

\* the tags and the payment gateway of an order, in the spellings of the
\* remote
TaggedOrderEvents ==
    {[topic |-> "orders/create",
      payload |-> [OrderPayload(902, "paid", <<VariantItem("hem", NoId)>>)
                      EXCEPT !.tags = t, !.gateway = g]] :
        t \in {"", "online", "in-store, cash", "VIP, Cash"},
        g \in {Null, "", "manual", "cash", "Cash on Delivery"}}

NextOnlineOrders ==
    \/ SyncProducts({Catalog(<<ShirtS, ShirtM>>)})
    \/ customers = <<>> /\ SyncCustomers
    \/ Webhook(OnlineOrderEvents \cup TaggedOrderEvents, MaxOrderEvents)

SpecOnlineOrders == Init /\ [][NextOnlineOrders]_vars

(***************************************************************************)
(* Product deletions over a store with orders.  Order.product_id is a      *)
(* foreign key to products.id without ON DELETE (models.py 100): the       *)
(* PostgreSQL engine of database.py 17-25 rejects the DELETE of a row an   *)
(* order refers to, the SQLite engine of database.py 26-31 does not check. *)
(***************************************************************************)
ForeignKeyViolation(db, payload) ==
    \E i \in 1..Len(db.products), j \in 1..Len(db.orders) :
        /\ db.products[i].shopify_product_id = payload.id
        /\ db.orders[j].product_id = db.products[i].id

\* handle_webhook on an engine that enforces foreign keys or not: the
\* rejected DELETE raises in the handler and aborts the transaction, so
\* that the commit of the failure record raises as well (main.py 2628-2642)
handle_webhook_on(db, events, topic, payload, enforced) ==
    IF enforced /\ topic = "products/delete" /\ ForeignKeyViolation(db, payload)
    THEN [db |-> db, events |-> LogEvent(events, topic, payload),
          resp |-> [status |-> "error", code |-> 500]]
    ELSE handle_webhook(db, events, topic, payload)

DeleteEvents ==
    {[topic |-> "products/delete", payload |-> [id |-> id]] : id \in {Shirt.id, Scarf.id, 9}}

ProductDeleteWebhook ==
    \E w \in DeleteEvents, enforced \in BOOLEAN :
        LET out == handle_webhook_on(Tables, webhook_events, w.topic, w.payload, enforced)
        IN  /\ Len(webhook_events) < MaxDeliveries
            /\ products' = out.db.products
            /\ customers' = out.db.customers
            /\ orders' = out.db.orders
            /\ webhook_events' = out.events
            /\ last' = [op |-> "handle_webhook", req |-> w,
                        env |-> [foreign_keys |-> enforced], pre |-> Pre,
                        resp |-> out.resp, calls |-> <<>>, order_id |-> NoId,
                        receipt |-> "none", repeat |-> FALSE]
            /\ UNCHANGED <<remote, sessions>>

NextDelete ==
    \/ SyncProducts(ShopCatalogs)
    \/ CreateOrderFromCart({CartRequest(<<Bar("b1")>>, 0, "cash", Ada.email, <<>>)}, {EnvOk})
    \/ ProductDeleteWebhook

SpecDelete == Init /\ [][NextDelete]_vars

(***************************************************************************)
(* Every operation that writes the store, side by side.                    *)
(***************************************************************************)
\* DELETE /products/clear (main.py 301-320): every product row goes, unless
\* the engine rejects the DELETE for a row an order refers to
clear_products(db, enforced) ==
    IF enforced /\ \E i \in 1..Len(db.products), j \in 1..Len(db.orders) :
                      db.orders[j].product_id = db.products[i].id
    THEN [products |-> db.products, resp |-> [status |-> "error", code |-> 500]]
    ELSE [products |-> <<>>, resp |-> [status |-> "success", code |-> 200]]

ClearProducts ==
    \E enforced \in BOOLEAN :
        LET out == clear_products(Tables, enforced)
        IN  /\ products' = out.products
            /\ last' = [op |-> "clear_products", req |-> <<>>,
                        env |-> [foreign_keys |-> enforced], pre |-> Pre,
                        resp |-> out.resp, calls |-> <<>>, order_id |-> NoId,
                        receipt |-> "none", repeat |-> FALSE]
            /\ UNCHANGED <<customers, orders, webhook_events, remote, sessions>>

\* one delivery of every handled topic
StoreEvents ==
    {[topic |-> "products/update", payload |-> Catalog(<<ShirtS2>>)[1]],
     [topic |-> "inventory_levels/update",
      payload |-> [id |-> NoId, inventory_item_id |-> ShirtS.variant.id,
                   available |-> PyInt(2)]],
     [topic |-> "customers/update", payload |-> Ada2],
     [topic |-> "orders/paid",
      payload |-> OrderPayload(900, "paid", <<RemoteItem("hem", PriceDec(1500))>>)],
     [topic |-> "orders/cancelled",
      payload |-> OrderPayload(NextOrderId(NoRemote), "refunded", <<>>)]}

\* the customer sync runs on a store without products and orders, and the
\* single-item endpoints before any webhook: the other orders of these
\* operations differ in the untouched tables only
NextStore ==
    \/ SyncProducts(ShopCatalogs)
    \/ products = <<>> /\ orders = <<>> /\ webhook_events = <<>> /\ customers = <<>>
          /\ SyncCustomers
    \/ Webhook(StoreEvents, MaxEvents)
    \/ ProductDeleteWebhook
    \/ ClearProducts
    \/ CreateOrderFromCart({CartRequest(<<Bar("b1")>>, 0, "cash", Ada.email, <<>>)}, {EnvOk})
    \/ webhook_events = <<>> /\ CreateOrderEndpoint
    \/ webhook_events = <<>> /\ CreateManualOrderEndpoint
    \/ webhook_events = <<>> /\ products = <<>> /\ CreateCustomer

SpecStore == Init /\ [][NextStore]_vars

(***************************************************************************)
(* Customers named by email in the order endpoints, over a customer table  *)
(* that the sync fills.                                                    *)
(***************************************************************************)
NextResolve ==
    \/ SyncCustomers
    \/ SyncProducts({Catalog(<<ShirtS, ShirtM>>)})
    \/ CreateOrderFromCart(CustomCartRequests, {EnvOk, EnvNoCustomer})
    \/ CreateOrderEndpoint

SpecResolve == Init /\ [][NextResolve]_vars

(***************************************************************************)
(* Two writers of the product table in separate transactions (several      *)
(* server processes on one database).  A writer first runs its queries on  *)
(* the rows committed at that time, which gives the rows it changed and    *)
(* the objects it added, and commits later: rows it changed are updated by *)
(* primary key, in the columns it changed, and its objects are inserted.   *)
(***************************************************************************)
\* UPDATE ... WHERE id = pk of the columns whose value the session changed
UpdateRow(cur, loaded, changed) ==
    [f \in DOMAIN cur |-> IF changed[f] # loaded[f] THEN changed[f] ELSE cur[f]]

\* the commit of a session that loaded the rows loaded, holds them as work
\* and added pending, on the committed rows cur
CommitRows(cur, loaded, work, pending) ==
    Flush([i \in 1..Len(cur) |->
              LET k == First(loaded, LAMBDA r : r.id = cur[i].id)
              IN  IF k = 0 THEN cur[i] ELSE UpdateRow(cur[i], loaded[k], work[k])],
          pending)

\* one variant of the catalog as the remote serves it to both writers
RacePool == {Catalog(<<ShirtS>>), Catalog(<<ShirtS2>>)}

\* at most MaxWriters writers overlap one another, on at most MaxWriters rows
RoomForWriter ==
    /\ Len(sessions) < MaxWriters
    /\ Len(products) < MaxWriters
    /\ \A i \in 1..Len(sessions) :
          Len(sessions[i].overlapped) + Len(sessions) < MaxWriters

\* sync_products up to its commit (main.py 148-214)
BeginSyncProducts ==
    \E fetched \in RacePool :
        LET acc == SyncProductsLoop(products, fetched, SyncAcc(products))
        IN  /\ RoomForWriter
            /\ sessions' = Append(sessions,
                    [op |-> "sync_products", req |-> fetched, event_id |-> NoId,
                     pre |-> Pre, work |-> acc.work, pending |-> acc.pending,
                     overlapped |-> <<>>])
            /\ UNCHANGED <<products, customers, orders, webhook_events, remote, last>>

\* a products/update call up to its final commit (main.py 2560-2606)
BeginProductWebhook ==
    \E fetched \in RacePool :
        LET S == handle_product_webhook(Tables, fetched[1], Session(Tables))
        IN  /\ RoomForWriter
            /\ Len(webhook_events) < MaxDeliveries
            /\ webhook_events' = LogEvent(webhook_events, "products/update", fetched[1])
            /\ sessions' = Append(sessions,
                    [op |-> "handle_webhook", req |-> fetched,
                     event_id |-> MaxId(webhook_events) + 1,
                     pre |-> Pre, work |-> S.products, pending |-> S.new_products,
                     overlapped |-> <<>>])
            /\ UNCHANGED <<products, customers, orders, remote, last>>

\* the sessions left open when session k commits: each has overlapped it
Overlapping(k) ==
    [i \in 1..(Len(sessions) - 1) |->
        LET t == sessions[IF i < k THEN i ELSE i + 1]
        IN  [t EXCEPT !.overlapped = Append(@, [op |-> sessions[k].op,
                                                req |-> sessions[k].req])]]

\* db.commit() of an open writer (main.py 217, 2616)
CommitWriter ==
    \E k \in 1..Len(sessions) :
        LET t == sessions[k]
        IN  /\ products' = CommitRows(products, t.pre.products, t.work, t.pending)
            /\ webhook_events' = SetEvent(webhook_events, t.event_id, "processed", Null)
            /\ sessions' = Overlapping(k)
            /\ last' = [op |-> t.op, req |-> t.req, env |-> t.overlapped, pre |-> t.pre,
                        resp |-> [status |-> "ok", code |-> 200], calls |-> <<>>,
                        order_id |-> NoId, receipt |-> "none", repeat |-> FALSE]
            /\ UNCHANGED <<customers, orders, remote>>

NextWriters ==
    \/ BeginSyncProducts
    \/ BeginProductWebhook
    \/ CommitWriter

SpecWriters == Init /\ [][NextWriters]_vars

(***************************************************************************)
(* The paginated fetches (shopify.py 61-105, 147-191, 391-447).  A remote  *)
(* listing is the sequence of its pages: the items of a page, whether the  *)
(* request for it succeeds, and whether its Link header names a next page. *)
(***************************************************************************)
Page(items, ok, next) == [items |-> items, ok |-> ok, next |-> next]

\* a loop that goes on to the next page after a failed request
RECURSIVE FetchPagesSkipping(_, _, _, _)
FetchPagesSkipping(pages, k, acc, requested) ==
    IF k > Len(pages) THEN [items |-> acc, requested |-> Append(requested, k)]
    ELSE IF ~pages[k].ok
         THEN FetchPagesSkipping(pages, k + 1, acc, Append(requested, k))
    ELSE IF pages[k].items = <<>> THEN [items |-> acc, requested |-> Append(requested, k)]
    ELSE IF pages[k].next
         THEN FetchPagesSkipping(pages, k + 1, acc \o pages[k].items, Append(requested, k))
    ELSE [items |-> acc \o pages[k].items, requested |-> Append(requested, k)]

\* the while loop from the request for page k on: an exception of the
\* request or of the decoding breaks the loop, an empty page breaks it, a
\* page without next link ends it (shopify.py 70-102)
RECURSIVE FetchPages(_, _, _, _)
FetchPages(pages, k, acc, requested) ==
    IF k > Len(pages) \/ ~pages[k].ok
    THEN [items |-> acc, requested |-> Append(requested, k)]
    ELSE IF pages[k].items = <<>> THEN [items |-> acc, requested |-> Append(requested, k)]
    ELSE IF pages[k].next
         THEN FetchPages(pages, k + 1, acc \o pages[k].items, Append(requested, k))
    ELSE [items |-> acc \o pages[k].items, requested |-> Append(requested, k)]

get_all_products(pages) == FetchPages(pages, 1, <<>>, <<>>)

get_all_customers(pages) == FetchPages(pages, 1, <<>>, <<>>)

get_orders_by_date_range(pages) == FetchPages(pages, 1, <<>>, <<>>)

\* the listings of up to MaxPages pages of a pool of page contents, every
\* page but the last with a next link, with no failing request (k = 0) or
\* with the request for page k failing
Listings(pool) ==
    {[i \in 1..Len(ps) |-> Page(ps[i], i # k, i < Len(ps))] :
        ps \in SeqsUpTo(pool, MaxPages) \ {<<>>}, k \in 0..MaxPages}

ProductListings == Listings({Catalog(<<ShirtS>>), Catalog(<<ShirtM>>), <<>>})

CustomerListings == Listings({<<Ada>>, <<Bob>>})

OrderListings == Listings({<<OrderPayload(900, "paid", <<>>)>>})

\* POST /sync-products with the remote listing paginated (main.py 148-227)
SyncProductsPaged ==
    \E pages \in ProductListings :
        LET got == get_all_products(pages)
            out == sync_products(products, got.items)
        IN  /\ products' = out.products
            /\ last' = [op |-> "sync_products", req |-> pages, env |-> got.items,
                        pre |-> Pre, resp |-> out.resp, calls |-> got.requested,
                        order_id |-> NoId, receipt |-> "none", repeat |-> FALSE]
            /\ UNCHANGED <<customers, orders, webhook_events, remote, sessions>>

\* POST /sync-customers with the remote listing paginated (main.py 325-416)
SyncCustomersPaged ==
    \E pages \in CustomerListings :
        LET got == get_all_customers(pages)
            out == sync_customers(customers, got.items)
        IN  /\ customers' = out.customers
            /\ last' = [op |-> "sync_customers", req |-> pages, env |-> got.items,
                        pre |-> Pre, resp |-> out.resp, calls |-> got.requested,
                        order_id |-> NoId, receipt |-> "none", repeat |-> FALSE]
            /\ UNCHANGED <<products, orders, webhook_events, remote, sessions>>

\* the fetch of the remote orders of a date range (shopify.py 391-447)
GetOrdersByDateRange ==
    \E pages \in OrderListings :
        LET got == get_orders_by_date_range(pages)
        IN  /\ last' = [op |-> "get_orders_by_date_range", req |-> pages,
                        env |-> got.items, pre |-> Pre,
                        resp |-> [status |-> "ok", code |-> 200],
                        calls |-> got.requested,
                        order_id |-> NoId, receipt |-> "none", repeat |-> FALSE]
            /\ UNCHANGED <<products, customers, orders, webhook_events, remote, sessions>>

NextPaged ==
    \/ SyncProductsPaged
    \/ SyncCustomersPaged
    \/ GetOrdersByDateRange

SpecPaged == Init /\ [][NextPaged]_vars

(***************************************************************************)
(* Product payloads that list a variant more than once, in syncs and in    *)
(* product webhooks that run one after the other on a store that starts    *)
(* empty.                                                                  *)
(***************************************************************************)
\* a product listed with the same variant twice, with two variants, and a
\* product of one variant
RepeatedCatalogs ==
    {Catalog(<<ShirtS, ShirtS>>), Catalog(<<ShirtS, ShirtM>>), Catalog(<<ShirtS2>>)}

RepeatedEvents ==
    {[topic |-> t, payload |-> c[1]] : t \in ProductTopics, c \in RepeatedCatalogs}

NextVariants ==
    \/ SyncProducts(RepeatedCatalogs)
    \/ Webhook(RepeatedEvents, MaxDeliveries)

SpecVariants == Init /\ [][NextVariants]_vars

(***************************************************************************)
(* A cart request in two steps, with the deliveries of the remote about    *)
(* the order it created arriving in between: the request up to the answer *)
(* of the remote (main.py 750-1087), and the insertion of its rows with    *)
(* the commit and the receipt (main.py 1089-1174).                         *)
(***************************************************************************)
\* the delivery the remote makes about order o: the order as it was sent
OrderCreatedEvent(o) ==
    [topic |-> "orders/create",
     payload |-> [id |-> o.id, financial_status |-> o.financial_status,
                  line_items |-> [i \in 1..Len(o.line_items) |->
                                     [o.line_items[i] EXCEPT !.price = PriceRepr(@)]],
                  customer |-> o.customer, tags |-> o.tags, gateway |-> o.gateway]]

\* carts of one and of two items, without and with a discount of 5.00
RaceCarts ==
    {CartRequest(items, d, "cash", Ada.email, <<>>) :
        items \in {<<Bar("b1")>>, <<Custom("hem", 10000, 1), Bar("b1")>>},
        d \in {0, 500}}

\* main.py 750-1087: a request that fails ends here; one whose remote
\* order was created holds its rows uncommitted
BeginCart ==
    \E req \in RaceCarts :
        LET out == create_order_from_cart(Tables, remote, req, EnvOk)
        IN  /\ sessions = <<>>
            /\ IF out.resp.code # 200
               THEN OrderStep("create_order_from_cart", req, EnvOk, out)
               ELSE /\ Len(remote.orders) < MaxOrders
                    /\ customers' = out.db.customers
                    /\ remote' = out.remote
                    /\ sessions' = <<[op |-> "create_order_from_cart", req |-> req,
                                      event_id |-> NoId, pre |-> Pre, out |-> out]>>
                    /\ UNCHANGED <<products, orders, webhook_events, last>>

\* main.py 1089-1174: the rows are inserted after those committed in the
\* meantime; overlapped are the deliveries processed since the request began
CommitCart ==
    /\ sessions # <<>>
    /\ sessions[1].op = "create_order_from_cart"
    /\ LET t == sessions[1]
       IN  /\ orders' = Flush(orders, SubSeq(t.out.db.orders, Len(t.pre.orders) + 1,
                                             Len(t.out.db.orders)))
           /\ last' = [op |-> t.op, req |-> t.req,
                       env |-> [outcomes |-> EnvOk,
                                overlapped |-> SubSeq(webhook_events,
                                                      Len(t.pre.webhook_events) + 1,
                                                      Len(webhook_events))],
                       pre |-> t.pre, resp |-> t.out.resp, calls |-> t.out.calls,
                       order_id |-> t.out.order_id, receipt |-> t.out.receipt,
                       repeat |-> FALSE]
    /\ sessions' = <<>>
    /\ UNCHANGED <<products, customers, webhook_events, remote>>

\* the remote delivers orders/create for an order it holds
OrderCreatedWebhook ==
    \E k \in 1..Len(remote.orders) :
        Webhook({OrderCreatedEvent(remote.orders[k])}, MaxDeliveries)

NextRace ==
    \/ products = <<>> /\ SyncProducts(ShopCatalogs)
    \/ BeginCart
    \/ OrderCreatedWebhook
    \/ CommitCart

SpecRace == Init /\ [][NextRace]_vars

(***************************************************************************)
(* Manual orders over the discounts a request may carry: none, one below   *)
(* the total, the total, one above it, and a negative one (the request     *)
(* model takes any float, main.py 74-81).                                  *)
(***************************************************************************)
ManualDiscounts == {-500, 0, 500, 10000, 20000}

DiscountedManualRequests ==
    {[title |-> "hem", size |-> "", price |-> 10000, quantity |-> q, discount |-> d,
      payment_method |-> pm, email |-> email] :
        q \in {1, 2}, d \in ManualDiscounts, pm \in {"cash", "pos"},
        email \in {Null, Ada.email}}

NextManual ==
    \/ customers = <<>> /\ SyncCustomers
    \/ ManualOrder(DiscountedManualRequests, {EnvOk, EnvNoCustomer})

SpecManual == Init /\ [][NextManual]_vars

(***************************************************************************)
(* get_today_stats (main.py 1552-1733) over the orders of the remote.  An  *)
(* order is listed with the day and time it was created, its financial    *)
(* status, when it was cancelled, its tags and its total in hundredths.    *)
(* The orders listed carry no refunds, so total_refunded_amount is 0.0     *)
(* and the apportionment of refunds (main.py 1650-1658) subtracts 0.0      *)
(* from each of the three amounts.                                         *)
(***************************************************************************)
MaxStatOrders == 3

\* order_created_at.split('T')[0]
RECURSIVE BeforeT(_)
BeforeT(text) ==
    IF text = "" \/ SubSeq(text, 1, 1) = "T" THEN ""
    ELSE SubSeq(text, 1, 1) \o BeforeT(SubSeq(text, 2, Len(text)))

\* main.py 1589-1606: the orders created on the day today_date_str
CreatedToday(order, today_date_str) ==
    /\ order.created_at # ""
    /\ IF Contains(order.created_at, "T")
       THEN BeforeT(order.created_at) = today_date_str
       ELSE /\ Len(order.created_at) >= Len(today_date_str)
            /\ SubSeq(order.created_at, 1, Len(today_date_str)) = today_date_str

\* main.py 1611-1615
ActiveOrder(order) == order.financial_status # "voided" /\ order.cancelled_at = Null

\* sum(float(order.get("total_price", 0)) for order in os)
RECURSIVE SumTotalPrice(_, _)
SumTotalPrice(os, acc) ==
    IF os = <<>> THEN acc
    ELSE SumTotalPrice(Tail(os), FAdd(acc, FParseCents(Head(os).total_price)))

\* main.py 1645-1647
cash_orders(active_orders) ==
    SelectSeq(active_orders, LAMBDA o : Contains(Lower(o.tags), "cash"))

pos_orders(active_orders) ==
    SelectSeq(active_orders, LAMBDA o : Contains(Lower(o.tags), "pos"))

online_orders(active_orders) ==
    SelectSeq(active_orders,
              LAMBDA o : ~Contains(Lower(o.tags), "cash") /\ ~Contains(Lower(o.tags), "pos"))

\* main.py 1586-1724; sums holds the amounts as they are before round()
TodayStats(shopify_orders) ==
    LET active_orders == SelectSeq(shopify_orders, ActiveOrder)
    IN  [status |-> "success", code |-> 200,
         total_orders |-> Len(active_orders),
         cancelled_orders |-> Len(shopify_orders) - Len(active_orders),
         active |-> active_orders,
         count |-> [cash |-> Len(cash_orders(active_orders)),
                    pos |-> Len(pos_orders(active_orders)),
                    online |-> Len(online_orders(active_orders))],
         sums |-> [gross |-> SumTotalPrice(active_orders, FZero),
                   cash |-> SumTotalPrice(cash_orders(active_orders), FZero),
                   pos |-> SumTotalPrice(pos_orders(active_orders), FZero),
                   online |-> SumTotalPrice(online_orders(active_orders), FZero)]]

get_today_stats(shopify_orders_all, today_date_str) ==
    TodayStats(SelectSeq(shopify_orders_all,
                         LAMBDA o : CreatedToday(o, today_date_str)))

Today == "2026-03-02"

StatOrder(created_at, financial_status, cancelled_at, tags, total_price) ==
    [created_at |-> created_at, financial_status |-> financial_status,
     cancelled_at |-> cancelled_at, tags |-> tags, total_price |-> total_price]

\* orders of today in every spelling of the tags: of the online store, of
\* the point of sale in cash and by card, a manual one, and one whose
\* tags name both cash and a word that holds "pos"; a voided and a
\* cancelled order of today; an order of the day before
StatOrders ==
    {StatOrder("2026-03-02T09:30:00+03:00", "paid", Null, t, 10) :
        t \in {"", "in-store, cash", "in-store, pos", "in-store, manual, POS",
               "cash, deposit"}}
    \cup {StatOrder("2026-03-02T11:00:00+03:00", "paid", Null, "in-store, cash", 20),
          StatOrder("2026-03-02T12:00:00+03:00", "paid", Null, "in-store, pos", 70),
          StatOrder("2026-03-02T13:00:00+03:00", "voided", Null, "in-store, cash", 10),
          StatOrder("2026-03-02T14:00:00+03:00", "paid", "2026-03-02T15:00:00+03:00",
                    "in-store, pos", 10),
          StatOrder("2026-03-01T23:30:00+03:00", "paid", Null, "in-store, cash", 10)}

\* GET /orders/stats/today: the orders are fetched in one page.  The
\* request reads no table and writes none, so one request per run covers
\* every listing.
GetTodayStats ==
    \E listed \in SeqsUpTo(StatOrders, MaxStatOrders) :
        LET got == get_orders_by_date_range(<<Page(listed, TRUE, FALSE)>>)
        IN  /\ last.op = "init"
            /\ last' = [op |-> "get_today_stats", req |-> listed, env |-> got.items,
                        pre |-> Pre, resp |-> get_today_stats(got.items, Today),
                        calls |-> got.requested,
                        order_id |-> NoId, receipt |-> "none", repeat |-> FALSE]
            /\ UNCHANGED <<products, customers, orders, webhook_events, remote, sessions>>

NextStats == GetTodayStats

SpecStats == Init /\ [][NextStats]_vars

(***************************************************************************)
(* The loop of a paginated fetcher one request at a time (shopify.py       *)
(* 61-105, 147-191, 391-447).  url is the page the next request asks for,  *)
(* 0 once the loop has ended; a request answers within its timeout of 30   *)
(* seconds or raises, so an iteration that has begun comes to its end.     *)
(***************************************************************************)
Fetchers == {"get_all_products", "get_all_customers", "get_orders_by_date_range"}

ListingsOf(fetcher) ==
    IF fetcher = "get_all_products" THEN ProductListings
    ELSE IF fetcher = "get_all_customers" THEN CustomerListings
    ELSE OrderListings

\* the call: all_products = [], url = the first page (shopify.py 66-68)
BeginFetch ==
    \E fetcher \in Fetchers :
        \E pages \in ListingsOf(fetcher) :
            /\ sessions = <<>>
            /\ last.op = "init"
            /\ sessions' = <<[op |-> fetcher, req |-> pages, event_id |-> NoId,
                              pre |-> Pre, url |-> 1, items |-> <<>>,
                              requested |-> <<>>]>>
            /\ UNCHANGED <<products, customers, orders, webhook_events, remote, last>>

\* an iteration that goes on to the next page after a failed request
FetchPageSkipping ==
    /\ sessions # <<>>
    /\ sessions[1].op \in Fetchers
    /\ sessions[1].url # 0
    /\ LET t == sessions[1]
           k == t.url
           asked == [t EXCEPT !.requested = Append(@, k)]
       IN  sessions' =
             IF k > Len(t.req) THEN <<[asked EXCEPT !.url = 0]>>
             ELSE IF ~t.req[k].ok THEN <<[asked EXCEPT !.url = k + 1]>>
             ELSE IF t.req[k].items = <<>> THEN <<[asked EXCEPT !.url = 0]>>
             ELSE <<[asked EXCEPT !.items = @ \o t.req[k].items,
                                  !.url = IF t.req[k].next THEN k + 1 ELSE 0]>>
    /\ UNCHANGED <<products, customers, orders, webhook_events, remote, last>>

\* one iteration of while url (shopify.py 70-102): the request for page
\* url; an exception breaks the loop, an empty page breaks it, and url
\* becomes the next link of the answer or None
FetchPage ==
    /\ sessions # <<>>
    /\ sessions[1].op \in Fetchers
    /\ sessions[1].url # 0
    /\ LET t == sessions[1]
           k == t.url
           asked == [t EXCEPT !.requested = Append(@, k)]
       IN  sessions' =
             IF k > Len(t.req) \/ ~t.req[k].ok THEN <<[asked EXCEPT !.url = 0]>>
             ELSE IF t.req[k].items = <<>> THEN <<[asked EXCEPT !.url = 0]>>
             ELSE <<[asked EXCEPT !.items = @ \o t.req[k].items,
                                  !.url = IF t.req[k].next THEN k + 1 ELSE 0]>>
    /\ UNCHANGED <<products, customers, orders, webhook_events, remote, last>>

\* return all_products (shopify.py 104-105)
ReturnFetch ==
    /\ sessions # <<>>
    /\ sessions[1].op \in Fetchers
    /\ sessions[1].url = 0
    /\ last' = [op |-> sessions[1].op, req |-> sessions[1].req,
                env |-> sessions[1].items, pre |-> sessions[1].pre,
                resp |-> [status |-> "ok", code |-> 200],
                calls |-> sessions[1].requested,
                order_id |-> NoId, receipt |-> "none", repeat |-> FALSE]
    /\ sessions' = <<>>
    /\ UNCHANGED <<products, customers, orders, webhook_events, remote>>

NextFetch ==
    \/ BeginFetch
    \/ FetchPage
    \/ ReturnFetch

SpecFetch ==
    Init /\ [][NextFetch]_vars /\ WF_vars(FetchPage) /\ WF_vars(ReturnFetch)

(***************************************************************************)
(* Properties of the bulk syncs and of the barcode lookup, under Spec.     *)
(***************************************************************************)
\* the variants of a fetched catalog in the order the sync visits them
RECURSIVE FetchedVariants(_)
FetchedVariants(fetched) ==
    IF fetched = <<>> THEN <<>>
    ELSE [i \in 1..Len(Head(fetched).variants) |->
            [product |-> Head(fetched), variant |-> Head(fetched).variants[i]]]
         \o FetchedVariants(Tail(fetched))

\* those the sync does not skip for want of a barcode or of an id
Syncable(fetched) ==
    SelectSeq(FetchedVariants(fetched),
              LAMBDA e : ~Falsy(e.variant.barcode) /\ e.variant.id # NoId)

FirstOccurrence(es, i) == \A j \in 1..(i - 1) : es[j].variant.id # es[i].variant.id

\* the pass raises: the first occurrence of some variant has a price that
\* float() rejects, or comes with a product without title
ProductPassRaises(fetched) ==
    LET es == Syncable(fetched)
    IN  \E i \in 1..Len(es) :
            /\ FirstOccurrence(es, i)
            /\ es[i].variant.price.kind = "bad" \/ es[i].product.title = Null

CustomerPassRaises(fetched) ==
    \E i \in 1..Len(fetched) :
        /\ fetched[i].id # NoId
        /\ \A j \in 1..(i - 1) : fetched[j].id # fetched[i].id
        /\ AddressRaises(fetched[i])

\* C1: when an exception is raised while sync_products or sync_customers
\* processes the fetched records, the table is after the call what it was
\* before it and the caller receives an error.
C1_SyncRollback ==
    /\ (last.op = "sync_products" /\ ProductPassRaises(last.req))
         => /\ products = last.pre.products
            /\ last.resp.status = "error" /\ last.resp.code = 500
    /\ (last.op = "sync_customers" /\ CustomerPassRaises(last.req))
         => /\ customers = last.pre.customers
            /\ last.resp.status = "error" /\ last.resp.code = 500

\* a pass that updated a stored row and then raised
C1_Witness ==
    /\ last.op = "sync_products"
    /\ ProductPassRaises(last.req)
    /\ Len(Syncable(last.req)) > 1
    /\ Syncable(last.req)[1].variant.price.kind # "bad"
    /\ \E i \in 1..Len(last.pre.products) :
          /\ last.pre.products[i].shopify_id = Syncable(last.req)[1].variant.id
          /\ last.pre.products[i].barcode # Syncable(last.req)[1].variant.barcode

\* C2: a sync run right after a run with the same fetched collection leaves
\* the number of rows as the first run left it and, when it completes,
\* reports added = 0 (sync_products and sync_customers).
C2_SyncIdempotent ==
    (last.repeat /\ last.op \in {"sync_products", "sync_customers"})
        => /\ Len(products) = Len(last.pre.products)
           /\ Len(customers) = Len(last.pre.customers)
           /\ last.resp.status = "ok" => last.resp.added = 0

\* the second of two completed runs over a catalog that has rows to add
C2_Witness ==
    /\ last.repeat
    /\ last.op = "sync_products"
    /\ last.resp.status = "ok"
    /\ last.resp.updated > 1
    /\ Len(products) > 1

SyncableIds(fetched) == {Syncable(fetched)[i].variant.id : i \in 1..Len(Syncable(fetched))}

CustomerIds(fetched) == {fetched[i].id : i \in 1..Len(fetched)} \ {NoId}

StoredIds(tbl) == {tbl[i].shopify_id : i \in 1..Len(tbl)}

RowsOf(tbl, id) == {i \in 1..Len(tbl) : tbl[i].shopify_id = id}

Occurrences(ids, id) == Cardinality({i \in 1..Len(ids) : ids[i] = id})

\* C3: a completed sync inserts exactly one row for an external id that has
\* no row and occurs in the fetched collection, however often it occurs,
\* and counts it once in added; a repeated id is counted neither as added
\* nor as updated (variants with a barcode in sync_products, customers in
\* sync_customers).
C3_InPassDedup ==
    /\ (last.op = "sync_products" /\ last.resp.status = "ok")
         => /\ \A id \in SyncableIds(last.req) \ StoredIds(last.pre.products) :
                   Cardinality(RowsOf(products, id)) = 1
            /\ last.resp.added =
                   Cardinality(SyncableIds(last.req) \ StoredIds(last.pre.products))
            /\ last.resp.updated =
                   Cardinality(SyncableIds(last.req) \cap StoredIds(last.pre.products))
    /\ (last.op = "sync_customers" /\ last.resp.status = "ok")
         => /\ \A id \in CustomerIds(last.req) \ StoredIds(last.pre.customers) :
                   Cardinality(RowsOf(customers, id)) = 1
            /\ last.resp.added =
                   Cardinality(CustomerIds(last.req) \ StoredIds(last.pre.customers))
            /\ last.resp.updated =
                   Cardinality(CustomerIds(last.req) \cap StoredIds(last.pre.customers))

\* a completed pass over a collection that holds a new variant id twice
C3_Witness ==
    /\ last.op = "sync_products"
    /\ last.resp.status = "ok"
    /\ last.resp.added = 1
    /\ \E id \in SyncableIds(last.req) \ StoredIds(last.pre.products) :
          Cardinality({i \in 1..Len(Syncable(last.req)) :
                          Syncable(last.req)[i].variant.id = id}) = 2

\* the stored rows a request addresses, by external id
Addressed(row) ==
    IF last.op = "sync_products" THEN row.shopify_id \in SyncableIds(last.req)
    ELSE IF last.op # "handle_webhook" THEN FALSE
    ELSE IF last.req.topic \in ProductTopics
         THEN \E k \in 1..Len(last.req.payload.variants) :
                 last.req.payload.variants[k].id = row.shopify_id
    ELSE IF last.req.topic = "products/delete"
         THEN row.shopify_product_id = last.req.payload.id
    ELSE IF last.req.topic = "inventory_levels/update"
         THEN row.shopify_id = last.req.payload.inventory_item_id
    ELSE FALSE

\* C10: variants with different external ids and one barcode are stored by
\* sync_products as distinct rows, get_product_by_barcode returns every row
\* of the barcode, and no sync or webhook changes, merges or drops a row it
\* does not address by id, whatever the barcodes of the rows.
C10_BarcodeSharing ==
    /\ (last.op = "sync_products" /\ last.resp.status = "ok")
         => LET es == Syncable(last.req)
            IN  /\ \A id \in SyncableIds(last.req) : RowsOf(products, id) # {}
                /\ \A i, j \in 1..Len(es) :
                      (/\ FirstOccurrence(es, i) /\ FirstOccurrence(es, j)
                       /\ es[i].variant.id # es[j].variant.id
                       /\ es[i].variant.barcode = es[j].variant.barcode)
                      => \E a, b \in 1..Len(products) :
                            /\ a # b
                            /\ products[a].shopify_id = es[i].variant.id
                            /\ products[b].shopify_id = es[j].variant.id
                            /\ products[a].barcode = es[i].variant.barcode
                            /\ products[b].barcode = es[i].variant.barcode
    /\ (last.op = "handle_webhook" /\ last.req.topic \in ProductTopics
            /\ last.resp.status = "ok")
         => \A k \in 1..Len(last.req.payload.variants) :
                RowsOf(products, last.req.payload.variants[k].id) # {}
    /\ last.op = "get_product_by_barcode"
         => \A i \in 1..Len(products) :
                products[i].barcode = last.req
                  => \E k \in 1..Len(last.resp.products) :
                        last.resp.products[k] = products[i]
    /\ last.op \in {"sync_products", "handle_webhook"}
         => \A i \in 1..Len(last.pre.products) :
                ~Addressed(last.pre.products[i])
                  => \E j \in 1..Len(products) : products[j] = last.pre.products[i]

\* the lookup of a barcode that two variants stored by a sync share
C10_Witness ==
    /\ last.op = "get_product_by_barcode"
    /\ last.resp.code = 200
    /\ last.resp.count = 2
    /\ last.resp.products[1].shopify_id # last.resp.products[2].shopify_id
    /\ last.resp.products[1].barcode = last.resp.products[2].barcode
    /\ webhook_events = <<>>

(***************************************************************************)
(* Properties of the order endpoints and of the order webhook.             *)
(***************************************************************************)
OrderOps ==
    {"create_order_from_cart", "create_order_endpoint", "create_manual_order_endpoint"}

\* the rows the last request appended to the order table
NewOrders == SubSeq(orders, Len(last.pre.orders) + 1, Len(orders))

\* the orders the remote holds since the last request
NewRemoteOrders == SubSeq(remote.orders, Len(last.pre.remote.orders) + 1, Len(remote.orders))

Positions(calls, name) == {i \in 1..Len(calls) : calls[i] = name}

\* C4: every row that an order endpoint inserts carries the id of the remote
\* order that a creation call of the same request returned before the
\* commit; a request whose remote call raises or returns no order inserts
\* nothing; and no stored row is without an external order id.
C4_RowsFollowRemoteOrder ==
    /\ \A i \in 1..Len(orders) : orders[i].shopify_order_id # NoId
    /\ last.op \in OrderOps
         => /\ SubSeq(orders, 1, Len(last.pre.orders)) = last.pre.orders
            /\ last.env.order # "ok" => orders = last.pre.orders /\ NewRemoteOrders = <<>>
            /\ \A i \in 1..Len(NewOrders) :
                  /\ last.env.order = "ok"
                  /\ Len(NewRemoteOrders) = 1
                  /\ NewOrders[i].shopify_order_id = NewRemoteOrders[1].id
                  /\ NewOrders[i].shopify_order_id = last.order_id
                  /\ \E a \in Positions(last.calls, "create_order") :
                        \E b \in Positions(last.calls, "commit") : a < b

\* an order of each endpoint stored, and a remote failure
C4_Witness ==
    /\ last.op = "create_order_endpoint"
    /\ last.resp.code = 200
    /\ Len(NewOrders) = 1
    /\ NewOrders[1].quantity = 2

Accepted(item, tbl) ==
    IF item.type = "custom"
    THEN ~Falsy(item.title) /\ item.price.kind = "dec" /\ item.price.cents > 0
    ELSE ~Falsy(item.barcode) /\ \E i \in 1..Len(tbl) : tbl[i].barcode = item.barcode

AcceptedItems(items, tbl) == SelectSeq(items, LAMBDA item : Accepted(item, tbl))

\* C5: a successful create_order_from_cart with k accepted items, whatever
\* the rejected ones, makes one remote creation call and inserts k rows,
\* all with the id that call returned, in the one commit that follows it.
C5_OrderLineFanOut ==
    (last.op = "create_order_from_cart" /\ last.resp.code = 200)
        => LET k == Len(AcceptedItems(last.req.items, last.pre.products))
           IN  /\ Cardinality(Positions(last.calls, "create_order")) = 1
               /\ Len(NewRemoteOrders) = 1
               /\ Len(NewOrders) = k
               /\ SubSeq(orders, 1, Len(last.pre.orders)) = last.pre.orders
               /\ \A i \in 1..Len(NewOrders) :
                     /\ NewOrders[i].shopify_order_id = NewRemoteOrders[1].id
                     /\ NewOrders[i].shopify_order_id = last.resp.shopify_order_id
               /\ \A a \in Positions(last.calls, "create_order") :
                     Cardinality({b \in Positions(last.calls, "commit") : b > a}) = 1

\* a cart of two accepted items, and one of an accepted and a rejected one
C5_Witness ==
    /\ last.op = "create_order_from_cart"
    /\ last.resp.code = 200
    /\ Len(last.req.items) = 2
    /\ Len(NewOrders) = 1
    /\ Len(last.pre.customers) = 1

\* C6: handle_order_webhook for an order id that has local rows sets the
\* status of each of them to the financial status of the payload, inserts
\* no row and changes nothing else in any table, whatever the line items
\* of the payload.
C6_OrderWebhookStatusOnly ==
    (/\ last.op = "handle_webhook"
     /\ last.req.topic \in OrderTopics
     /\ \E i \in 1..Len(last.pre.orders) :
           last.pre.orders[i].shopify_order_id = last.req.payload.id)
        => /\ Len(orders) = Len(last.pre.orders)
           /\ \A i \in 1..Len(last.pre.orders) :
                 orders[i] =
                    IF last.pre.orders[i].shopify_order_id = last.req.payload.id
                    THEN [last.pre.orders[i] EXCEPT
                             !.status = last.req.payload.financial_status]
                    ELSE last.pre.orders[i]
           /\ products = last.pre.products
           /\ customers = last.pre.customers
           /\ last.resp.status = "ok"

\* a webhook with three line items for an order of two rows, beside the
\* rows of another order
C6_Witness ==
    /\ last.op = "handle_webhook"
    /\ last.req.topic \in OrderTopics
    /\ Len(last.req.payload.line_items) = 3
    /\ last.req.payload.financial_status = "refunded"
    /\ Cardinality({i \in 1..Len(last.pre.orders) :
                      last.pre.orders[i].shopify_order_id = last.req.payload.id}) = 2
    /\ \E i \in 1..Len(orders) : orders[i].shopify_order_id # last.req.payload.id
    /\ \A i \in 1..Len(last.pre.orders) :
          last.pre.orders[i].shopify_order_id = last.req.payload.id
             => last.pre.orders[i].status = "completed" /\ orders[i].status = "refunded"

\* the hundredths a stored price stands for
KnownCents == {0, 9999, 10000}

PriceCents(price) == CHOOSE c \in KnownCents : FParseCents(c) = price

HasStock(p) == p.inventory_quantity # PyNone /\ p.inventory_quantity[1] > 0

\* the variant the selection rule names among the matches ps
Preferred(ps) ==
    IF \E i \in 1..Len(ps) : HasStock(ps[i])
    THEN ps[SetMin({i \in 1..Len(ps) : HasStock(ps[i])})]
    ELSE ps[1]

Matches(tbl, barcode) == SelectSeq(tbl, LAMBDA r : r.barcode = barcode)

\* the hundredths an accepted item adds to the total
ItemCents(item, tbl) ==
    IF item.type = "custom" THEN item.price.cents * item.quantity
    ELSE PriceCents(Preferred(Matches(tbl, item.barcode)).price) * item.quantity

RECURSIVE SumCents(_, _)
SumCents(items, tbl) ==
    IF items = <<>> THEN 0
    ELSE ItemCents(Head(items), tbl) + SumCents(Tail(items), tbl)

\* the pre-discount total of the accepted items of the last request
ExactTotal == SumCents(AcceptedItems(last.req.items, last.pre.products), last.pre.products)

\* C7: create_order_from_cart answers 400 without a remote order call
\* whenever the discount is at least the pre-discount total of the accepted
\* items, and accepts the cart whenever 0 < discount < total, with the
\* final amount total - discount (100 - 99.99 = 0.01).
C7_DiscountBoundary ==
    (/\ last.op = "create_order_from_cart"
     /\ AcceptedItems(last.req.items, last.pre.products) # <<>>)
        => /\ last.req.discount >= ExactTotal
              => /\ last.resp.code = 400
                 /\ Positions(last.calls, "create_order") = {}
           /\ (/\ 0 < last.req.discount
               /\ last.req.discount < ExactTotal
               /\ last.env.order = "ok")
              => /\ last.resp.code = 200
                 /\ last.resp.final_amount = FParseCents(ExactTotal - last.req.discount)

\* C8: when generate_order_pdf raises in create_order_from_cart the rows of
\* the order stay committed, the remote order stays, and the response
\* reports success; the receipt is attempted only after the commit that
\* follows the remote order.
C8_ReceiptFailureIsolated ==
    last.op = "create_order_from_cart"
        => /\ \A g \in Positions(last.calls, "generate_order_pdf") :
                 /\ g = Len(last.calls)
                 /\ g > 2
                 /\ last.calls[g - 2] = "create_order"
                 /\ last.calls[g - 1] = "commit"
           /\ (last.env.pdf = "raise" /\ Positions(last.calls, "generate_order_pdf") # {})
                 => /\ last.receipt = "failed"
                    /\ last.resp.code = 200
                    /\ last.resp.status = "success"
                    /\ NewOrders # <<>>
                    /\ Len(NewOrders) = Len(last.resp.orders)
                    /\ Len(NewRemoteOrders) = 1
                    /\ \A i \in 1..Len(NewOrders) :
                          NewOrders[i].shopify_order_id = NewRemoteOrders[1].id

\* an order of two rows whose receipt failed
C8_Witness ==
    /\ last.op = "create_order_from_cart"
    /\ last.env.pdf = "raise"
    /\ last.receipt = "failed"
    /\ Len(NewOrders) = 2
    /\ last.resp.code = 200

\* C9: a barcode item of create_order_from_cart and the barcode of
\* create_order_endpoint are sold as the first matching variant with
\* inventory > 0 when there is one, whatever the order of the others, and
\* as the first matching variant when there is none.
C9_StockPreferringSelection ==
    /\ (/\ last.op = "create_order_endpoint"
        /\ last.env = EnvOk
        /\ last.req.payment_method \in PaymentMethods
        /\ Matches(last.pre.products, last.req.barcode) # <<>>)
          => /\ last.resp.code = 200
             /\ Len(NewOrders) = 1
             /\ NewOrders[1].product_id =
                    Preferred(Matches(last.pre.products, last.req.barcode)).id
    /\ (/\ last.op = "create_order_from_cart"
        /\ last.env = EnvOk
        /\ last.req.payment_method \in PaymentMethods
        /\ Falsy(last.req.email) # (last.req.new_customer = <<>>)
        /\ AcceptedItems(last.req.items, last.pre.products) # <<>>)
          => /\ last.resp.code = 200
             /\ Len(NewOrders) = Len(AcceptedItems(last.req.items, last.pre.products))
             /\ \A i \in 1..Len(NewOrders) :
                   NewOrders[i].barcode # Null
                      => NewOrders[i].product_id =
                            Preferred(Matches(last.pre.products, NewOrders[i].barcode)).id

(***************************************************************************)
(* Properties of the webhook calls, under SpecWebhook.                     *)
(***************************************************************************)
\* the last webhook call ended in an error after its handler had run
WebhookFailed ==
    /\ last.op = "handle_webhook"
    /\ last.req.topic \in HandledTopics
    /\ last.resp.status = "error"

\* C11: a webhook call is all-or-nothing: when its handler raises after
\* having applied part of the payload, the product, customer and order
\* tables are after the call what they were before it.
C11_WebhookAllOrNothing ==
    (WebhookFailed /\ sessions = <<>>)
        => /\ products = last.pre.products
           /\ customers = last.pre.customers
           /\ orders = last.pre.orders

\* C12: when create_order_from_cart rejects a request with a validation
\* error (payment method, empty cart, both or neither of email and
\* new_customer, no valid item, discount >= total), the local store is
\* what it was before the request and the request has made no commit and
\* no remote creation call, of a customer or of an order.
C12_ValidationRejectsCleanly ==
    (last.op = "create_order_from_cart" /\ last.resp.code = 400)
        => /\ products = last.pre.products
           /\ customers = last.pre.customers
           /\ orders = last.pre.orders
           /\ remote = last.pre.remote
           /\ Positions(last.calls, "create_customer") = {}
           /\ Positions(last.calls, "create_order") = {}
           /\ Positions(last.calls, "commit") = {}

TerminalStatuses == {"processed", "failed", "skipped"}

\* the event row of a call that is between its two commits
OpenEvent(id) ==
    \E k \in 1..Len(sessions) :
        sessions[k].op = "handle_webhook" /\ sessions[k].event_id = id

\* C13: the event row of a webhook call is committed as processing before
\* its handler is dispatched; the status of an event row only ever goes
\* from processing to processed, failed or skipped, and a row in one of
\* these three is never changed again.
C13_EventStatusTransitions ==
    [][/\ Len(webhook_events') >= Len(webhook_events)
       /\ \A i \in 1..Len(webhook_events) :
             /\ webhook_events'[i].id = webhook_events[i].id
             /\ webhook_events'[i] # webhook_events[i]
                   => /\ webhook_events[i].status = "processing"
                      /\ webhook_events'[i].status \in TerminalStatuses
       /\ \A i \in (Len(webhook_events) + 1)..Len(webhook_events') :
             webhook_events'[i].status = "processing"
       /\ (sessions # <<>> /\ sessions' = <<>>)
             => \E i \in 1..Len(webhook_events) :
                   /\ webhook_events[i].id = sessions[1].event_id
                   /\ webhook_events[i].status = "processing"
                   /\ products = sessions[1].pre.products
                   /\ customers = sessions[1].pre.customers
                   /\ orders = sessions[1].pre.orders]_vars

\* a call logged as processing after a call that failed and before its
\* handler has changed a table
C13_Witness ==
    /\ Len(webhook_events) = 2
    /\ webhook_events[1].status = "failed"
    /\ webhook_events[2].status = "processing"
    /\ OpenEvent(webhook_events[2].id)
    /\ webhook_events[2].topic \in HandledTopics

\* the event row of the last call
LastEvent == webhook_events[Len(webhook_events)]

\* C14: when a webhook call raises after its event was logged, in the
\* handler or in the commit of the handler's changes, the event row has
\* status failed and holds the message of the exception when the call ends
\* with a server error.
C14_FailureRecorded ==
    (WebhookFailed /\ sessions = <<>>)
        => /\ last.resp.code = 500
           /\ LastEvent.status = "failed"
           /\ LastEvent.error_message # Null

\* C15: every webhook call creates one event row, whose status is written
\* as processing at insert and once more as processed, failed or skipped;
\* no event row is in processing after its call has ended.
C15_EventFinalised ==
    /\ \A i, j \in 1..Len(webhook_events) :
          webhook_events[i].id = webhook_events[j].id => i = j
    /\ \A i \in 1..Len(webhook_events) :
          \/ webhook_events[i].status \in TerminalStatuses
          \/ webhook_events[i].status = "processing" /\ OpenEvent(webhook_events[i].id)

\* C16: every product row has a barcode and an external variant id: no
\* sequence of bulk syncs and product webhooks stores a variant without
\* barcode.
C16_ProductsHaveBarcode ==
    \A i \in 1..Len(products) :
        products[i].barcode # Null /\ products[i].shopify_id # NoId

(***************************************************************************)
(* Properties of the customer table, under SpecCustomers.                  *)
(***************************************************************************)
\* the last request read from the remote a customer whose external id a
\* local row already holds, and went on to store it
InsertsStoredId ==
    \/ /\ last.op = "create_order_from_cart"
       /\ First(last.pre.customers, LAMBDA r : r.email = last.req.email) = 0
       /\ last.env.search # <<>>
       /\ last.env.search[1].id \in StoredIds(last.pre.customers)
    \/ /\ last.op = "create_customer"
       /\ last.env.created
       /\ NextCustomerSid(last.pre.remote) \in StoredIds(last.pre.customers)

\* C17: no two customer rows share an external customer id, whatever the
\* sequence of sync_customers, customer webhooks, create_customer and order
\* requests; a request that would store a second row for an external id
\* fails and leaves the customer table as it was.
C17_CustomerIdsUnique ==
    /\ \A i, j \in 1..Len(customers) :
          customers[i].shopify_id = customers[j].shopify_id => i = j
    /\ InsertsStoredId
          => /\ customers = last.pre.customers
             /\ last.resp.code = 500

\* an order for an email unknown locally whose remote match is a customer
\* stored under another email
C17_Witness ==
    /\ InsertsStoredId
    /\ last.op = "create_order_from_cart"
    /\ Len(customers) = 2
    /\ last.resp.code = 500

(***************************************************************************)
(* Properties of concurrent writers, under SpecWriters.                    *)
(***************************************************************************)
\* the columns both a sync and a product webhook assign
VariantColumns ==
    {"title", "sku", "barcode", "price", "inventory_quantity", "variant_title",
     "image_url"}

\* what writer op assigns to the row of the variant it was served
WrittenBy(op, fetched) ==
    LET p == fetched[1]
        v == p.variants[1]
    IN  [title |-> p.title, sku |-> v.sku, barcode |-> v.barcode,
         price |-> PriceFloat(v.price),
         inventory_quantity |-> IF op = "sync_products"
                                THEN InventoryInt(v.inventory_quantity)
                                ELSE v.inventory_quantity,
         variant_title |-> v.title,
         image_url |-> IF op = "sync_products" THEN FirstImage(p) ELSE VariantImage(p, v)]

SameColumns(row, written) == \A f \in VariantColumns : row[f] = written[f]

\* the last writer committed after a writer that it overlapped, both about
\* the same variant, and no writer is open
RaceFinished ==
    /\ sessions = <<>>
    /\ last.op \in {"sync_products", "handle_webhook"}
    /\ last.env # <<>>
    /\ \A k \in 1..Len(last.env) :
          last.env[k].req[1].variants[1].id = last.req[1].variants[1].id

\* C18: when two writers of one external variant id (syncs, product
\* webhooks, or one of each) run concurrently in separate transactions,
\* the store holds after both exactly one row for that id, with the values
\* one of the two wrote.
C18_LastWriterWins ==
    RaceFinished
        => LET id == last.req[1].variants[1].id
           IN  /\ Cardinality(RowsOf(products, id)) = 1
               /\ \A i \in RowsOf(products, id) :
                     \/ SameColumns(products[i], WrittenBy(last.op, last.req))
                     \/ \E k \in 1..Len(last.env) :
                           SameColumns(products[i],
                                       WrittenBy(last.env[k].op, last.env[k].req))

(***************************************************************************)
(* Properties of the paginated fetches, under SpecPaged.                   *)
(***************************************************************************)
PagedOps == {"sync_products", "sync_customers", "get_orders_by_date_range"}

\* the page whose request fails after every page before it was served with
\* items and a next link, 0 when the fetch meets no failing request
FailedPage(pages) ==
    LET failing == {k \in 1..Len(pages) :
                        /\ ~pages[k].ok
                        /\ \A j \in 1..(k - 1) :
                              pages[j].ok /\ pages[j].items # <<>> /\ pages[j].next}
    IN  IF failing = {} THEN 0 ELSE SetMin(failing)

\* the items of pages 1..n in page order
RECURSIVE PagesBefore(_, _)
PagesBefore(pages, n) ==
    IF n = 0 THEN <<>> ELSE PagesBefore(pages, n - 1) \o pages[n].items

\* C19: when the request for page k of a paginated fetch fails, the fetch
\* returns the items of pages 1..k-1 in page order, having requested every
\* page 1..k once and none twice, and sync_products commits that truncated
\* collection and reports ok.
C19_TruncatedFetchSynced ==
    (last.op \in PagedOps /\ FailedPage(last.req) > 0)
        => LET k == FailedPage(last.req)
               fetched == PagesBefore(last.req, k - 1)
           IN  /\ last.env = fetched
               /\ last.calls = [i \in 1..k |-> i]
               /\ last.op = "sync_products"
                     => /\ last.resp.status = "ok"
                        /\ last.resp.total_products = Len(fetched)
                        /\ products = sync_products(last.pre.products, fetched).products
                        /\ \A i \in 1..Len(fetched) :
                              \A j \in 1..Len(fetched[i].variants) :
                                 RowsOf(products, fetched[i].variants[j].id) # {}

C19_Witness ==
    /\ last.op = "sync_products"
    /\ FailedPage(last.req) = MaxPages
    /\ Len(last.env) = MaxPages - 1
    /\ last.resp.status = "ok"
    /\ last.resp.added > 0
    /\ Len(products) > Len(last.pre.products)

(***************************************************************************)
(* The remote order of the cart endpoint, under SpecCart.                  *)
(***************************************************************************)
\* the line item an accepted cart item is sent as
ExpectedLine(item, tbl) ==
    IF item.type = "custom"
    THEN [title |-> FullTitle(item.title, item.size), quantity |-> item.quantity,
          price |-> PriceFloat(item.price), variant_id |-> NoId]
    ELSE LET p == Preferred(Matches(tbl, item.barcode))
         IN  [title |-> p.title, quantity |-> item.quantity, price |-> p.price,
              variant_id |-> p.shopify_id]

\* the total of the items, added in cart order to acc
RECURSIVE FloatTotal(_, _, _)
FloatTotal(items, tbl, acc) ==
    IF items = <<>> THEN acc
    ELSE FloatTotal(Tail(items), tbl,
                    FAdd(acc, FMulInt(ExpectedLine(Head(items), tbl).price,
                                      Head(items).quantity)))

\* C20: a successful create_order_from_cart sends exactly one remote order;
\* its line items are the accepted cart items in cart order, followed by
\* exactly one line of negative price if and only if a discount above zero
\* was applied; the amount of its sale transaction is the total of the
\* accepted items minus the discount.
C20_RemoteOrderOfCart ==
    (last.op = "create_order_from_cart" /\ last.resp.code = 200)
        => LET items == AcceptedItems(last.req.items, last.pre.products)
               lines == [i \in 1..Len(items) |-> ExpectedLine(items[i], last.pre.products)]
               total == FloatTotal(items, last.pre.products, FZero)
               d == FParseCents(last.req.discount)
           IN  /\ Cardinality(Positions(last.calls, "create_order")) = 1
               /\ Len(NewRemoteOrders) = 1
               /\ SubSeq(NewRemoteOrders[1].line_items, 1, Len(items)) = lines
               /\ IF FGt(d, FZero)
                  THEN /\ Len(NewRemoteOrders[1].line_items) = Len(items) + 1
                       /\ NewRemoteOrders[1].line_items[Len(items) + 1].price = FNeg(d)
                       /\ NewRemoteOrders[1].line_items[Len(items) + 1].quantity = 1
                       /\ NewRemoteOrders[1].line_items[Len(items) + 1].variant_id = NoId
                       /\ NewRemoteOrders[1].amount = FSub(total, d)
                  ELSE /\ NewRemoteOrders[1].line_items = lines
                       /\ NewRemoteOrders[1].amount = total

C20_Witness ==
    /\ last.op = "create_order_from_cart"
    /\ last.resp.code = 200
    /\ FGt(FParseCents(last.req.discount), FZero)
    /\ Len(AcceptedItems(last.req.items, last.pre.products)) = 2
    /\ Len(NewRemoteOrders) = 1
    /\ Len(NewRemoteOrders[1].line_items) = 3

(***************************************************************************)
(* Customer resolution in the order endpoints, under SpecResolve.          *)
(***************************************************************************)
\* the last request reached the resolution of its customer by email
ResolvesByEmail ==
    \/ /\ last.op = "create_order_from_cart"
       /\ last.req.items # <<>>
       /\ last.req.payment_method \in PaymentMethods
       /\ ~Falsy(last.req.email)
       /\ last.req.new_customer = <<>>
    \/ /\ last.op = "create_order_endpoint"
       /\ last.req.payment_method \in PaymentMethods
       /\ Matches(last.pre.products, last.req.barcode) # <<>>

LocalHit(email) == \E i \in 1..Len(last.pre.customers) : last.pre.customers[i].email = email

\* C21: an order request that names an existing customer by email looks
\* the local store up first and on a hit makes no remote search; on a miss
\* it calls the remote search and persists and uses its first match; when
\* the search returns nothing it fails with 404 and creates no remote
\* order and no order row.
C21_CustomerByEmail ==
    ResolvesByEmail
        => IF LocalHit(last.req.email)
           THEN /\ Positions(last.calls, "search_customer_by_email") = {}
                /\ customers = last.pre.customers
           ELSE /\ Positions(last.calls, "search_customer_by_email") = {1}
                /\ IF last.env.search = <<>>
                   THEN /\ last.resp.code = 404
                        /\ NewRemoteOrders = <<>>
                        /\ orders = last.pre.orders
                        /\ customers = last.pre.customers
                   ELSE /\ Len(customers) = Len(last.pre.customers) + 1
                        /\ SubSeq(customers, 1, Len(last.pre.customers)) = last.pre.customers
                        /\ customers[Len(customers)].shopify_id = last.env.search[1].id
                        /\ customers[Len(customers)].email = last.env.search[1].email
                        /\ \A i \in 1..Len(NewRemoteOrders) :
                              NewRemoteOrders[i].customer = last.env.search[1].id
                        /\ \A i \in 1..Len(NewOrders) :
                              NewOrders[i].customer_id = customers[Len(customers)].id

(***************************************************************************)
(* The new customer of a cart, under SpecOrders.                           *)
(***************************************************************************)
\* the last request is a cart that reached the resolution of a new customer
ResolvesNewCustomer ==
    /\ last.op = "create_order_from_cart"
    /\ last.req.items # <<>>
    /\ last.req.payment_method \in PaymentMethods
    /\ Falsy(last.req.email)
    /\ last.req.new_customer # <<>>

\* the first local row of an email before the last request
RowOfEmail(email) ==
    last.pre.customers[SetMin({i \in 1..Len(last.pre.customers) :
                                  last.pre.customers[i].email = email})]

\* C22: create_order_from_cart with a new_customer payload calls the
\* remote customer creation if and only if no local customer row has the
\* email of the payload; a local row of that email is used for the order
\* and no remote customer is created.
C22_NewCustomerCreatedOnce ==
    ResolvesNewCustomer
        => IF LocalHit(last.req.new_customer[1].email)
           THEN /\ Positions(last.calls, "create_customer") = {}
                /\ remote.customers_created = last.pre.remote.customers_created
                /\ customers = last.pre.customers
                /\ \A i \in 1..Len(NewRemoteOrders) :
                      NewRemoteOrders[i].customer =
                          RowOfEmail(last.req.new_customer[1].email).shopify_id
                /\ \A i \in 1..Len(NewOrders) :
                      NewOrders[i].customer_id = RowOfEmail(last.req.new_customer[1].email).id
           ELSE Positions(last.calls, "create_customer") = {1}

C22_Witness ==
    /\ ResolvesNewCustomer
    /\ LocalHit(last.req.new_customer[1].email)
    /\ last.resp.code = 200
    /\ Len(NewOrders) > 0
    /\ Len(NewRemoteOrders) = 1

(***************************************************************************)
(* The inventory webhook, under Spec.                                      *)
(***************************************************************************)
InventoryCall == last.op = "handle_webhook" /\ last.req.topic = "inventory_levels/update"

\* C23: handle_inventory_update changes only the inventory quantity of one
\* local variant whose external variant id is the inventory item id of the
\* payload, and leaves every other field of that row and every other row
\* unchanged; when no variant matches it changes nothing and does not
\* raise.
C23_InventoryUpdateFrame ==
    InventoryCall
        => LET hit == RowsOf(last.pre.products, last.req.payload.inventory_item_id)
           IN  /\ customers = last.pre.customers
               /\ orders = last.pre.orders
               /\ last.resp.status = "ok"
               /\ webhook_events[Len(webhook_events)].status = "processed"
               /\ IF hit = {}
                  THEN products = last.pre.products
                  ELSE products = [last.pre.products EXCEPT
                                     ![SetMin(hit)].inventory_quantity =
                                         last.req.payload.available]

\* a stored variant gets a new quantity beside another variant of the same
\* barcode
C23_Witness ==
    /\ InventoryCall
    /\ Len(last.pre.products) = 2
    /\ last.pre.products[1].barcode = last.pre.products[2].barcode
    /\ RowsOf(last.pre.products, last.req.payload.inventory_item_id) # {}
    /\ products # last.pre.products

(***************************************************************************)
(* Orders that arrive by webhook, under SpecOnlineOrders.                  *)
(***************************************************************************)
\* the last call is an order webhook about an order without local rows
OrderInsertCall ==
    /\ last.op = "handle_webhook"
    /\ last.req.topic \in OrderTopics
    /\ \A i \in 1..Len(last.pre.orders) :
          last.pre.orders[i].shopify_order_id # last.req.payload.id

\* the local id of the first row of tbl with the external id, NoId when
\* there is none or the external id is missing
LocalIdOf(tbl, id) ==
    IF id = NoId \/ RowsOf(tbl, id) = {} THEN NoId ELSE tbl[SetMin(RowsOf(tbl, id))].id

\* C24: handle_order_webhook for an external order id without local rows
\* inserts one row per line item of the payload, each with that order id;
\* customer_id and product_id are the local ids found by external id, and
\* null without failure when there is no match; a payload without line
\* items inserts nothing and is processed successfully.
C24_OrderWebhookInserts ==
    OrderInsertCall
        => /\ SubSeq(orders, 1, Len(last.pre.orders)) = last.pre.orders
           /\ Len(NewOrders) = Len(last.req.payload.line_items)
           /\ \A i \in 1..Len(NewOrders) :
                 /\ NewOrders[i].shopify_order_id = last.req.payload.id
                 /\ NewOrders[i].title = last.req.payload.line_items[i].title
                 /\ NewOrders[i].customer_id =
                        LocalIdOf(last.pre.customers, last.req.payload.customer)
                 /\ NewOrders[i].product_id =
                        LocalIdOf(last.pre.products,
                                  last.req.payload.line_items[i].variant_id)
           /\ products = last.pre.products
           /\ customers = last.pre.customers
           /\ last.resp.status = "ok"
           /\ webhook_events[Len(webhook_events)].status = "processed"

\* three line items, of no variant, of an unknown variant and of a stored
\* one, for an order of a stored customer
C24_Witness ==
    /\ OrderInsertCall
    /\ Len(NewOrders) = 3
    /\ NewOrders[1].customer_id # NoId
    /\ NewOrders[1].product_id = NoId
    /\ NewOrders[2].product_id = NoId
    /\ NewOrders[3].product_id # NoId
    /\ last.req.payload.line_items[2].variant_id # NoId

\* the tags and the gateways of the deliveries that name cash, in any case
\* of the letters
CashTags == {"in-store, cash", "VIP, Cash"}
CashGateways == {"cash", "Cash on Delivery"}

\* C25: the rows handle_order_webhook creates have payment method cash
\* when the lower-cased tags of the order contain "cash", or else when its
\* lower-cased gateway contains "cash", and pos in every other case.
C25_WebhookPaymentMethod ==
    OrderInsertCall
        => \A i \in 1..Len(NewOrders) :
              NewOrders[i].payment_method =
                 IF last.req.payload.tags \in CashTags THEN "cash"
                 ELSE IF last.req.payload.gateway \in CashGateways THEN "cash"
                 ELSE "pos"

\* a gateway that names cash in capitals under tags that do not
C25_Witness ==
    /\ OrderInsertCall
    /\ Len(NewOrders) = 1
    /\ last.req.payload.tags = "online"
    /\ last.req.payload.gateway = "Cash on Delivery"
    /\ NewOrders[1].payment_method = "cash"

(***************************************************************************)
(* The products/delete webhook, under SpecDelete.                          *)
(***************************************************************************)
DeleteCall == last.op = "handle_webhook" /\ last.req.topic = "products/delete"

\* C26: handle_product_delete removes all product rows whose parent product
\* id is the id of the payload and no others: the rows of another parent
\* product and every customer and order row are left unchanged.
C26_ProductDeleteFrame ==
    DeleteCall
        => /\ products = SelectSeq(last.pre.products,
                                   LAMBDA r : r.shopify_product_id # last.req.payload.id)
           /\ customers = last.pre.customers
           /\ orders = last.pre.orders

(***************************************************************************)
(* Deletions, under SpecStore.                                             *)
(***************************************************************************)
\* every row of before is a row of after, by primary key
Kept(before, after) ==
    \A i \in 1..Len(before) : \E j \in 1..Len(after) : after[j].id = before[i].id

\* C27: no operation deletes a customer, order or webhook event row, and
\* product rows are deleted only by clear_products and by the
\* products/delete webhook; sync_products removes no product row, also
\* not one whose variant the fetched catalog does not list.
C27_DeletionsOnlyByClearAndDelete ==
    [][/\ Kept(customers, customers')
       /\ Kept(orders, orders')
       /\ Kept(webhook_events, webhook_events')
       /\ ~Kept(products, products')
             => \/ last'.op = "clear_products"
                \/ last'.op = "handle_webhook" /\ last'.req.topic = "products/delete"]_vars

\* a sync of a catalog that lacks a stored variant, which is still stored
C27_Witness ==
    /\ last.op = "sync_products"
    /\ last.resp.status = "ok"
    /\ \E i \in 1..Len(last.pre.products) :
          /\ \A k \in 1..Len(last.req) : \A j \in 1..Len(last.req[k].variants) :
                last.req[k].variants[j].id # last.pre.products[i].shopify_id
          /\ \E j \in 1..Len(products) : products[j] = last.pre.products[i]

(***************************************************************************)
(* The single-item order endpoints, under SpecOrders.                      *)
(***************************************************************************)
SingleItemOps == {"create_order_endpoint", "create_manual_order_endpoint"}

CustomerCalls == {"search_customer_by_email", "create_customer"}

\* the calls of the last request are those of the customer resolution,
\* then the remote order, then the commit of the local row
OrderSequence ==
    \E a \in Positions(last.calls, "create_order") :
        /\ Positions(last.calls, "create_order") = {a}
        /\ \A i \in 1..(a - 1) : last.calls[i] \in CustomerCalls \cup {"commit"}
        /\ last.calls[a + 1] = "commit"
        /\ Len(NewRemoteOrders) = 1
        /\ Len(NewOrders) = 1

\* C28: create_order_endpoint and create_manual_order_endpoint perform the
\* sequence of create_order_from_cart: the customer is resolved, the remote
\* order is created, the local row is committed, and then the receipt is
\* attempted, its failure not failing the order.
C28_SingleItemSequence ==
    (last.op \in SingleItemOps /\ last.resp.code = 200)
        => /\ OrderSequence
           /\ Positions(last.calls, "generate_order_pdf") = {Len(last.calls)}
           /\ last.receipt \in {"generated", "failed"}


(***************************************************************************)
(* Deliveries of a topic without handler (main.py 2607-2612)               *)
(***************************************************************************)
UnhandledCall == last.op = "handle_webhook" /\ last.req.topic \notin HandledTopics

\* the row the call logged
EventOfCall == webhook_events[Len(last.pre.webhook_events) + 1]

\* C29: a delivery whose topic has no handler changes no row of the
\* product, customer and order tables, leaves the earlier event rows as
\* they were, records its own event row as skipped with the message naming
\* the topic, and is answered with success and status skipped.
C29_UnhandledTopicSkipped ==
    UnhandledCall
        => /\ products = last.pre.products
           /\ customers = last.pre.customers
           /\ orders = last.pre.orders
           /\ SubSeq(webhook_events, 1, Len(last.pre.webhook_events))
                  = last.pre.webhook_events
           /\ EventOfCall.topic = last.req.topic
           /\ EventOfCall.shopify_id = last.req.payload.id
           /\ EventOfCall.status = "skipped"
           /\ EventOfCall.error_message = "Unhandled topic: " \o last.req.topic
           /\ last.resp = [status |-> "skipped", code |-> 200]

\* a delivery without handler arrived at a store that holds products
C29_Witness ==
    /\ UnhandledCall
    /\ sessions = <<>>
    /\ last.pre.products # <<>>
    /\ last.pre.webhook_events # <<>>


(***************************************************************************)
(* The product webhook against the bulk sync of the same product           *)
(* (webhooks.py 12-80, main.py 158-214)                                    *)
(***************************************************************************)
ProductCall == last.op = "handle_webhook" /\ last.req.topic \in ProductTopics

\* every variant has a barcode and an id, and no two share an id
AllBarcoded(payload) ==
    /\ \A i \in 1..Len(payload.variants) :
          ~Falsy(payload.variants[i].barcode) /\ payload.variants[i].id # NoId
    /\ \A i, j \in 1..Len(payload.variants) :
          i # j => payload.variants[i].id # payload.variants[j].id

\* C30: after a delivery of a product payload whose variants all have a
\* barcode and pairwise distinct ids, the product table equals the table
\* sync_products leaves when it runs, on the table before the delivery, on
\* a catalog that holds only the product of the payload.
C30_WebhookAsSingleProductSync ==
    (ProductCall /\ AllBarcoded(last.req.payload))
        => products = sync_products(last.pre.products, <<last.req.payload>>).products


(***************************************************************************)
(* Properties of the product table under SpecVariants.                     *)
(***************************************************************************)
\* C31: on a store that started empty, after any sequence of product syncs
\* and product webhooks that run one after the other, no two rows of the
\* product table hold the same variant id, also when a payload lists a
\* variant id more than once.
C31_OneRowPerVariant ==
    \A i, j \in 1..Len(products) :
        i # j => products[i].shopify_id # products[j].shopify_id


(***************************************************************************)
(* Properties of a cart request overtaken by the delivery about its order, *)
(* under SpecRace.                                                         *)
(***************************************************************************)
CartDone ==
    last.op = "create_order_from_cart" /\ last.resp.code = 200 /\ sessions = <<>>

\* a delivery about the order of the request was processed after the
\* remote created it and before the request committed
DeliveredBetween ==
    \E i \in 1..Len(last.env.overlapped) :
        last.env.overlapped[i].shopify_id = last.order_id

RowsOfOrder(id) == SelectSeq(orders, LAMBDA r : r.shopify_order_id = id)

\* C32: when the orders/create delivery about the remote order of a cart
\* request is processed between the remote creation and the commit of
\* the request, then after both the order table holds one row per accepted
\* item of the cart for that order id, and none for the discount line.
C32_OneRowPerItemAfterRace ==
    (CartDone /\ DeliveredBetween)
        => /\ Len(RowsOfOrder(last.order_id))
                 = Len(AcceptedItems(last.req.items, last.pre.products))
           /\ \A i \in 1..Len(RowsOfOrder(last.order_id)) :
                 RowsOfOrder(last.order_id)[i].title
                     # "Discount - " \o last.req.discount_reason


(***************************************************************************)
(* Amounts of the orders sent to the remote.                               *)
(***************************************************************************)
\* C33: every remote order that create_order_from_cart creates has a
\* total before discount above zero and an amount charged above zero.
C33_CartAmountsPositive ==
    (last.op = "create_order_from_cart" /\ last.resp.code = 200)
        => /\ FGt(last.resp.original_amount, FZero)
           /\ FGt(last.resp.final_amount, FZero)
           /\ \A i \in 1..Len(NewRemoteOrders) : FGt(NewRemoteOrders[i].amount, FZero)


\* C34: after a successful create_order_endpoint call of quantity q >= 1
\* the remote order agrees with the row stored: its line item has quantity
\* q and its sale transaction is of the stored price times q.
C34_RemoteAgreesWithRow ==
    (last.op = "create_order_endpoint" /\ last.resp.code = 200
        /\ last.req.quantity >= 1)
        => /\ Len(NewOrders) = 1
           /\ Len(NewRemoteOrders) = 1
           /\ NewOrders[1].quantity = last.req.quantity
           /\ Len(NewRemoteOrders[1].line_items) = 1
           /\ NewRemoteOrders[1].line_items[1].quantity = NewOrders[1].quantity
           /\ NewRemoteOrders[1].amount
                 = FMulInt(NewOrders[1].price, NewOrders[1].quantity)


\* C35: the items_count that a successful create_order_from_cart reports is
\* the number of accepted items of the cart, which is the number of order
\* rows in its answer, with and without a discount.
C35_ItemsCountIsRows ==
    (last.op = "create_order_from_cart" /\ last.resp.code = 200)
        => /\ Len(last.resp.orders)
                 = Len(AcceptedItems(last.req.items, last.pre.products))
           /\ last.resp.items_count = Len(last.resp.orders)


\* C36: the amount of the sale transaction of every manual order that
\* create_manual_order_endpoint accepts is above zero and at most the
\* price times the quantity.
C36_ManualAmountBounded ==
    (last.op = "create_manual_order_endpoint" /\ last.resp.code = 200)
        => \A i \in 1..Len(NewRemoteOrders) :
              /\ FGt(NewRemoteOrders[i].amount, FZero)
              /\ FLe(NewRemoteOrders[i].amount,
                     FMulInt(FParseCents(last.req.price), last.req.quantity))


(***************************************************************************)
(* Properties of the stored rows.                                          *)
(***************************************************************************)
\* C37: after any sequence of product syncs, product webhooks and
\* inventory webhooks the inventory quantity of every product row is an
\* integer, never null.
C37_InventoryNeverNull ==
    \A i \in 1..Len(products) : products[i].inventory_quantity # PyNone


HasRow(tbl, id) == \E k \in 1..Len(tbl) : tbl[k].id = id

\* C38: every order row with a product id refers to a stored product row
\* and every order row with a customer id to a stored customer row, also
\* after clear_products and after products/delete deliveries.
C38_OrderReferencesResolve ==
    \A i \in 1..Len(orders) :
        /\ orders[i].product_id # NoId => HasRow(products, orders[i].product_id)
        /\ orders[i].customer_id # NoId => HasRow(customers, orders[i].customer_id)


(***************************************************************************)
(* Properties of get_today_stats, under SpecStats.                         *)
(***************************************************************************)
\* the groups of the breakdown that hold order o
GroupsOf(o, active) ==
    {g \in {"cash", "pos", "online"} :
        \E i \in 1..Len(active) :
            /\ active[i] = o
            /\ \/ g = "cash" /\ \E k \in 1..Len(cash_orders(active)) : cash_orders(active)[k] = o
               \/ g = "pos" /\ \E k \in 1..Len(pos_orders(active)) : pos_orders(active)[k] = o
               \/ g = "online" /\ \E k \in 1..Len(online_orders(active)) :
                                     online_orders(active)[k] = o}

\* the total of orders os in hundredths
RECURSIVE TotalCents(_)
TotalCents(os) ==
    IF os = <<>> THEN 0 ELSE Head(os).total_price + TotalCents(Tail(os))

\* C39: get_today_stats counts every active order in exactly one of the
\* groups cash, pos and online: the three counts add up to total_orders
\* and the three amounts add up to the gross revenue (compared in
\* hundredths, the precision to which the answer rounds).
C39_BreakdownPartitions ==
    last.op = "get_today_stats"
        => /\ \A i \in 1..Len(last.resp.active) :
                 Cardinality(GroupsOf(last.resp.active[i], last.resp.active)) = 1
           /\ last.resp.count.cash + last.resp.count.pos + last.resp.count.online
                 = last.resp.total_orders
           /\ TotalCents(cash_orders(last.resp.active))
                 + TotalCents(pos_orders(last.resp.active))
                 + TotalCents(online_orders(last.resp.active))
                 = TotalCents(last.resp.active)


(***************************************************************************)
(* Properties of the loop of the paginated fetchers, under SpecFetch.      *)
(***************************************************************************)
Fetching == sessions # <<>> /\ sessions[1].op \in Fetchers

\* the answer to the request for page k ends the loop
LastPage(pages, k) ==
    k > Len(pages) \/ ~pages[k].ok \/ pages[k].items = <<>> \/ ~pages[k].next

\* the items of the pages 1..n that were served
RECURSIVE ItemsOfPages(_, _)
ItemsOfPages(pages, n) ==
    IF n = 0 THEN <<>>
    ELSE ItemsOfPages(pages, n - 1)
            \o (IF n <= Len(pages) /\ pages[n].ok THEN pages[n].items ELSE <<>>)

\* the pages 1..n were requested in this order, none of them before the
\* last ended the loop, and the items are those of the pages in this order
InCursorOrder(pages, requested, items) ==
    /\ requested = [i \in 1..Len(requested) |-> i]
    /\ \A i \in 1..(Len(requested) - 1) : ~LastPage(pages, i)
    /\ items = ItemsOfPages(pages, Len(requested))

\* C40: a paginated fetcher requests the pages one at a time in the order
\* of the next links, stops at the first answer that fails, is empty or has
\* no next link, returns the items of the pages in the order fetched, and
\* every fetch that has begun returns.
C40_FetchTerminatesInOrder ==
    /\ [](Fetching => InCursorOrder(sessions[1].req, sessions[1].requested,
                                    sessions[1].items))
    /\ []((last.op \in Fetchers /\ sessions = <<>>)
            => /\ InCursorOrder(last.req, last.calls, last.env)
               /\ last.calls # <<>>
               /\ LastPage(last.req, Len(last.calls)))
    /\ [][Fetching /\ sessions' # <<>>
            => \/ sessions'[1].requested = sessions[1].requested
               \/ sessions'[1].requested
                     = Append(sessions[1].requested, Len(sessions[1].requested) + 1)]_vars
    /\ (Fetching ~> ~Fetching)

\* a fetch returned after its third request failed, with the items of the
\* first two pages
C40_Witness ==
    /\ last.op = "get_all_products"
    /\ sessions = <<>>
    /\ last.calls = <<1, 2, 3>>
    /\ ~last.req[3].ok
    /\ last.env = last.req[1].items \o last.req[2].items
    /\ last.env # <<>>

=============================================================================
